---------------------------- MODULE Spec2Model ----------------------------
(***************************************************************************)
(* Job execution and lifecycle engine of Telegram-CLI: the resumable job   *)
(* store (StateManager), the cooperative shutdown flag (GracefulShutdown)  *)
(* and the batch forwarding orchestrator (Forwarder.forward_all and the    *)
(* forward-all / resume commands that drive it).                           *)
(***************************************************************************)
EXTENDS Integers, Sequences, FiniteSets, TLC

(***************************************************************************)
(* Bounds of the model.                                                    *)
(***************************************************************************)
MaxJobs == 2
MaxMsgId == 2
MaxCount == 1

(***************************************************************************)
(* Program constants.                                                      *)
(***************************************************************************)
MAX_BATCH_SIZE == 100
FLOOD_CEILING == 3600
retry_count == 3

NoJob == 0

JobStatus == {"pending", "running", "completed", "interrupted", "failed"}
JobType == {"forward-last", "forward-all", "forward-live"}
NoError == "none"

VARIABLES
    jobs,              \* StateManager._jobs: job id -> Job record
    current_job_id,    \* StateManager._current_job_id (NoJob for None)
    jobs_file,         \* the persisted job table (jobs.json)
    created,           \* number of job ids allocated so far
    last_op,           \* the last Job Store call and what it returned
    source,            \* the source chat: last message id, forwardable ids
    proc,              \* the command process: forward_all's locals, shutdown flag
    hist,              \* what the remote saw: calls, deliveries, deletions
    daemons_file,      \* the persisted daemon registry (daemons.json): pid -> record
    os_procs,          \* the operating system's process table, by pid
    shell              \* the administrative caller: list / kill / restore in flight

storeVars == <<jobs, current_job_id, jobs_file, created>>
daemonVars == <<daemons_file, os_procs, shell>>

\* no daemon has been started and no administrative command is running
NoDaemonWorld ==
    /\ daemons_file = <<>>
    /\ os_procs = <<>>
    /\ shell = <<>>

(***************************************************************************)
(* Job and StateManager, as pure functions of a store value                *)
(* [jobs, cur, file].                                                      *)
(***************************************************************************)
Job(job_type, opts) ==
    [job_type |-> job_type,
     status |-> "running",
     last_message_id |-> 0,
     total_processed |-> 0,
     total_skipped |-> 0,
     total_failed |-> 0,
     destinations |-> opts.destinations,
     delete_after |-> opts.delete_after,
     batch_size |-> opts.batch_size,
     last_error |-> NoError]

is_resumable_noCheckpoint(job) ==
    /\ job.status = "interrupted"
    /\ job.job_type \in {"forward-all", "forward-last"}

is_resumable(job) ==
    /\ job.status = "interrupted"
    /\ job.job_type \in {"forward-all", "forward-last"}
    /\ job.last_message_id > 0

SM == [jobs |-> jobs, cur |-> current_job_id, file |-> jobs_file]

save(s) == [s EXCEPT !.file = s.jobs]

has_current(s) == s.cur # NoJob /\ s.cur \in DOMAIN s.jobs

create_job(s, job_id, job_type, opts) ==
    save([s EXCEPT !.jobs = (job_id :> Job(job_type, opts)) @@ s.jobs,
                   !.cur = job_id])

get_resumable_jobs(s) == {j \in DOMAIN s.jobs : is_resumable(s.jobs[j])}

save_checkpoint_everyJob(s, message_id, processed, skipped, failed) ==
    IF ~has_current(s) THEN s
    ELSE save([s EXCEPT !.jobs = [j \in DOMAIN s.jobs |->
        [s.jobs[j] EXCEPT
            !.last_message_id = message_id,
            !.total_processed = @ + processed,
            !.total_skipped = @ + skipped,
            !.total_failed = @ + failed]]])

save_checkpoint(s, message_id, processed, skipped, failed) ==
    IF ~has_current(s) THEN s
    ELSE save([s EXCEPT
        !.jobs[s.cur].last_message_id = message_id,
        !.jobs[s.cur].total_processed = @ + processed,
        !.jobs[s.cur].total_skipped = @ + skipped,
        !.jobs[s.cur].total_failed = @ + failed])

update_progress(s, message_id, processed, skipped, failed) ==
    IF ~has_current(s) THEN s
    ELSE save([s EXCEPT
        !.jobs[s.cur].last_message_id = message_id,
        !.jobs[s.cur].total_processed = processed,
        !.jobs[s.cur].total_skipped = skipped,
        !.jobs[s.cur].total_failed = failed])

mark_interrupted(s, error) ==
    IF ~has_current(s) THEN s
    ELSE [save([s EXCEPT
        !.jobs[s.cur].status = "interrupted",
        !.jobs[s.cur].last_error = IF error # NoError THEN error ELSE @])
          EXCEPT !.cur = NoJob]

mark_completed_noSave(s) ==
    IF ~has_current(s) THEN s
    ELSE [s EXCEPT !.jobs[s.cur].status = "completed", !.cur = NoJob]

mark_completed(s) ==
    IF ~has_current(s) THEN s
    ELSE [save([s EXCEPT !.jobs[s.cur].status = "completed"])
          EXCEPT !.cur = NoJob]

mark_failed(s, error) ==
    IF ~has_current(s) THEN s
    ELSE [save([s EXCEPT
        !.jobs[s.cur].status = "failed",
        !.jobs[s.cur].last_error = error])
          EXCEPT !.cur = NoJob]

resume_ok(s, job_id) == job_id \in DOMAIN s.jobs /\ is_resumable(s.jobs[job_id])

resume_job_anyStatus(s, job_id) ==
    IF job_id \notin DOMAIN s.jobs THEN s
    ELSE save([s EXCEPT !.jobs[job_id].status = "running", !.cur = job_id])

resume_job_keepCurrent(s, job_id) ==
    IF ~resume_ok(s, job_id) THEN s
    ELSE save([s EXCEPT !.jobs[job_id].status = "running"])

resume_job(s, job_id) ==
    IF ~resume_ok(s, job_id) THEN s
    ELSE save([s EXCEPT !.jobs[job_id].status = "running", !.cur = job_id])

delete_job(s, job_id) ==
    IF job_id \in DOMAIN s.jobs
    THEN save([s EXCEPT !.jobs = [j \in DOMAIN s.jobs \ {job_id} |-> s.jobs[j]]])
    ELSE s

\* aged: the jobs whose completed_at is more than max_age_days old
cleanup_old_jobs(s, aged) ==
    LET to_delete == {j \in DOMAIN s.jobs :
                        s.jobs[j].status = "completed" /\ j \in aged}
    IN IF to_delete = {} THEN s
       ELSE save([s EXCEPT !.jobs = [j \in DOMAIN s.jobs \ to_delete |-> s.jobs[j]]])

SetSM(s) ==
    /\ jobs' = s.jobs
    /\ current_job_id' = s.cur
    /\ jobs_file' = s.file

(***************************************************************************)
(* The command process (cmd_forward_all / cmd_resume running               *)
(* Forwarder.forward_all) as pure functions of a world value               *)
(* [sm, created, p, h]: sm the StateManager, p the process, h the history. *)
(***************************************************************************)
NoExit == -1
NoArgs == [dest_ids |-> <<>>, delete_after |-> FALSE, batch_size |-> 0,
           dry_run |-> FALSE, min_id |-> 0]
NoFwd == [d |-> 0, ctx |-> "main", fresh |-> <<>>, success |-> <<>>, failed |-> <<>>,
          tail |-> FALSE, i |-> 0, attempt |-> 0, results |-> <<>>,
          exc |-> <<>>, fallback |-> {}]
NoRun == [batches |-> 0, ckpts |-> 0, full_ckpts |-> 0, stop_batches |-> 0,
          last_full |-> 0, attempted |-> {}, faulty |-> FALSE, resumed |-> FALSE,
          returned |-> FALSE, stopped |-> FALSE, any_failed |-> FALSE]

IdleProc(code) ==
    [pc |-> "idle", args |-> NoArgs, cursor |-> 0, batch |-> <<>>,
     processed |-> 0, skipped |-> 0, failed |-> 0,
     shutdown_requested |-> FALSE, current_message_id |-> 0,
     fwd |-> NoFwd, live |-> FALSE, exit_code |-> code]

NoHist ==
    [faults |-> 0, delivered |-> {}, deleted |-> {}, calls |-> <<>>,
     times |-> <<>>, start |-> 0, dry |-> FALSE, args |-> NoArgs,
     limited |-> FALSE, after_limit |-> FALSE, run |-> NoRun]

W == [sm |-> SM, created |-> created, p |-> proc, h |-> hist]

SetW(w) ==
    /\ SetSM(w.sm)
    /\ created' = w.created
    /\ proc' = w.p
    /\ hist' = w.h

Last(s) == s[Len(s)]
Min(a, b) == IF a <= b THEN a ELSE b
Range(s) == {s[i] : i \in 1..Len(s)}

\* errors.py: handle_long_flood_wait raises AccountLimitedError above the ceiling
handle_long_flood_wait(wait_seconds) ==
    IF wait_seconds > FLOOD_CEILING THEN "AccountLimitedError" ELSE "slept"

\* cli.py: the command's epilogue after forward_all returned
finish_cmd(w) ==
    [w EXCEPT !.sm = IF w.p.shutdown_requested
                     THEN mark_interrupted(w.sm, NoError)
                     ELSE mark_completed(w.sm),
              !.p = IdleProc(IF w.p.failed = 0 THEN 0 ELSE 1),
              !.h.run.returned = TRUE,
              !.h.run.stopped = w.p.shutdown_requested]

\* cli.py: except AccountLimitedError -> mark_failed
cmd_account_limited(w) ==
    [w EXCEPT !.sm = mark_failed(w.sm, "account-limited"), !.p = IdleProc(1)]

\* cli.py: except Exception -> mark_interrupted(str(e))
cmd_exception(w) ==
    [w EXCEPT !.sm = mark_interrupted(w.sm, "exception"), !.p = IdleProc(1)]

\* forward_all: bookkeeping after a batch (processed, checkpoint, reset)
checkpoint_id(batch) == Last(batch)

after_batch(w) ==
    LET p == w.p
        n == p.processed + Len(p.batch)
        id == checkpoint_id(p.batch)
        w1 == [w EXCEPT
                !.sm = update_progress(w.sm, id, n, p.skipped, p.failed),
                !.p.processed = n,
                !.h.run.ckpts = @ + 1,
                !.h.run.full_ckpts =
                    IF w.h.run.attempted = 1..Len(p.args.dest_ids) THEN @ + 1 ELSE @]
    IN IF p.fwd.tail
       THEN finish_cmd([w1 EXCEPT !.p.fwd = NoFwd])
       ELSE [w1 EXCEPT !.p.current_message_id = id,
                       !.p.batch = <<>>,
                       !.p.fwd = NoFwd,
                       !.p.pc = "iter"]

\* forward_to_destinations is entered with the accumulated batch
start_forward(w, tail) ==
    [w EXCEPT !.p.pc = "call",
              !.p.fwd = [NoFwd EXCEPT !.d = 1, !.tail = tail],
              !.h.times = [m \in DOMAIN @ |->
                             IF m \in Range(w.p.batch) THEN @[m] + 1 ELSE @[m]],
              !.h.run.batches = @ + 1,
              !.h.run.attempted = {},
              !.h.run.stop_batches =
                  IF w.p.shutdown_requested THEN @ + 1 ELSE @]

batch_ready(w, tail) ==
    IF w.p.args.dry_run
    THEN after_batch([w EXCEPT !.p.fwd.tail = tail])
    ELSE start_forward(w, tail)

\* forward_all: the code after the message loop
after_loop(w) ==
    IF w.p.batch # <<>> THEN batch_ready(w, TRUE) ELSE finish_cmd(w)

\* forward_to_destinations: the deletion step, then back in forward_all
msgs_to_delete(batch, success, dest_ids) ==
    {m \in Range(batch) :
        Cardinality({i \in 1..Len(success) : success[i][1] = m}) = Len(dest_ids)}

end_forward(w) ==
    LET p == w.p
        del == IF p.args.delete_after
               THEN msgs_to_delete(p.batch, p.fwd.success, p.args.dest_ids)
               ELSE {}
    IN [w EXCEPT !.h.deleted = @ \cup del, !.p.pc = "result"]

\* forward_all: forward_to_destinations has returned its ForwardResult
forward_returned(w) ==
    after_batch([w EXCEPT
        !.h.run.last_full = Last(w.p.batch),
        !.h.run.any_failed = @ \/ w.p.fwd.failed # <<>>,
        !.p.failed = @ + (Len(w.p.fwd.failed) \div Len(w.p.args.dest_ids))])

\* forward_to_destinations: one destination is finished
next_dest_stopBetweenDests(w) ==
    IF w.p.fwd.d < Len(w.p.args.dest_ids) /\ ~w.p.shutdown_requested
    THEN [w EXCEPT !.p.pc = "call",
                   !.p.fwd.d = @ + 1, !.p.fwd.ctx = "main", !.p.fwd.fresh = <<>>,
                   !.p.fwd.i = 0, !.p.fwd.attempt = 0, !.p.fwd.results = <<>>]
    ELSE end_forward(w)

next_dest(w) ==
    IF w.p.fwd.d < Len(w.p.args.dest_ids)
    THEN [w EXCEPT !.p.pc = "call",
                   !.p.fwd.d = @ + 1, !.p.fwd.ctx = "main", !.p.fwd.fresh = <<>>,
                   !.p.fwd.i = 0, !.p.fwd.attempt = 0, !.p.fwd.results = <<>>]
    ELSE end_forward(w)

Dest(p) == p.args.dest_ids[p.fwd.d]
Msgs(p) == IF p.fwd.ctx = "stale" THEN p.fwd.fresh ELSE p.batch

record_success(w, msgs) ==
    [w EXCEPT !.p.fwd.success =
        @ \o [i \in 1..Len(msgs) |-> <<msgs[i], Dest(w.p)>>]]

record_failed(w, msgs, reason) ==
    [w EXCEPT !.p.fwd.failed =
        @ \o [i \in 1..Len(msgs) |-> <<msgs[i], Dest(w.p), reason>>]]

deliver(w, msgs) ==
    [w EXCEPT !.h.delivered = @ \cup {<<m, Dest(w.p)>> : m \in Range(msgs)}]

\* the remote's answers to one forward_messages call
PermissionErrors == {"ChatWriteForbiddenError", "ChannelPrivateError",
                     "UserBannedInChannelError", "ChatAdminRequiredError"}
ServerErrors == {"WorkerBusyTooLongRetryError"}
OtherErrors == {"MessageIdInvalidError", "FileReferenceExpiredError", "RPCError"}
FloodSeconds == {FLOOD_CEILING, FLOOD_CEILING + 1}
RemoteOutcomes ==
    {[kind |-> "ok", seconds |-> 0]}
    \cup {[kind |-> "FloodWaitError", seconds |-> t] : t \in FloodSeconds}
    \cup {[kind |-> e, seconds |-> 0] :
            e \in {"PeerFloodError"} \cup ServerErrors \cup PermissionErrors \cup OtherErrors}

AccountLevel(out) ==
    \/ out.kind = "PeerFloodError"
    \/ out.kind = "FloodWaitError" /\ out.seconds > FLOOD_CEILING

Reason(exc) ==
    CASE exc = "ChatWriteForbiddenError" -> "No write permission"
      [] exc = "ChannelPrivateError" -> "Private channel"
      [] exc = "UserBannedInChannelError" -> "Banned from channel"
      [] exc = "ChatAdminRequiredError" -> "Admin rights required"
      [] exc = "MessageIdInvalidError" -> "Message deleted"
      [] OTHER -> exc

\* a forward_messages call reaches the remote
Costs(p, out) == out.kind # "ok" /\ ~(p.pc = "single" /\ p.fwd.attempt > 0)

log_call(w, msgs, out) ==
    [w EXCEPT
        !.h.calls = Append(@, [b |-> w.h.run.batches, c |-> w.h.run.ckpts,
                               d |-> w.p.fwd.d, msgs |-> msgs,
                               short |-> /\ w.p.pc = "call"
                                         /\ out.kind = "FloodWaitError"
                                         /\ out.seconds <= FLOOD_CEILING]),
        !.h.faults = IF Costs(w.p, out) THEN @ + 1 ELSE @,
        !.h.run.attempted = @ \cup {w.p.fwd.d},
        !.h.run.faulty = @ \/ out.kind # "ok",
        !.h.after_limit = @ \/ w.h.limited,
        !.h.limited = @ \/ AccountLevel(out)]

\* start_live_forward.handler: except AccountLimitedError: raise. The
\* exception leaves the event callback; start_live_forward itself waits in
\* run_until_disconnected, which only a disconnect ends.
live_handler_raised(w) ==
    [w EXCEPT !.p.pc = "live", !.p.batch = <<>>, !.p.fwd = NoFwd]

\* AccountLimitedError leaves forward_to_destinations
account_limited(w) ==
    IF w.p.live THEN live_handler_raised(w) ELSE cmd_account_limited(w)

\* forward_to_destinations: the exception that left _forward_messages_batch
caught(w, exc) ==
    [w EXCEPT !.p.fwd.exc = Append(@, [d |-> w.p.fwd.d, kind |-> exc])]

raised_noRecord(w, exc) ==
    IF w.p.fwd.ctx = "stale"
    THEN next_dest(record_failed(caught(w, exc), w.p.batch, "Media unavailable"))
    ELSE IF exc = "AccountLimitedError"
    THEN account_limited(w)
    ELSE IF exc = "FileReferenceExpiredError"
    THEN [w EXCEPT !.p.pc = "refetch"]
    ELSE IF exc \in PermissionErrors
    THEN next_dest(caught(w, exc))
    ELSE next_dest(record_failed(caught(w, exc), w.p.batch, Reason(exc)))

\* forward_to_destinations: the except clauses around _forward_messages_batch
raised(w, exc) ==
    IF w.p.fwd.ctx = "stale"
    THEN next_dest(record_failed(caught(w, exc), w.p.batch, "Media unavailable"))
    ELSE IF exc = "AccountLimitedError"
    THEN account_limited(w)
    ELSE IF exc = "FileReferenceExpiredError"
    THEN [w EXCEPT !.p.pc = "refetch"]
    ELSE next_dest(record_failed(caught(w, exc), w.p.batch, Reason(exc)))

\* forward_to_destinations: what it records from the list returned for a destination
returned(w, forwarded) ==
    LET msgs == Msgs(w.p)
        n == Len(forwarded)
    IN IF w.p.fwd.ctx = "stale" \/ n = Len(msgs)
       THEN next_dest(record_success(w, msgs))
       ELSE next_dest(record_failed(
                record_success(w, SubSeq(msgs, 1, n)),
                SubSeq(msgs, n + 1, Len(msgs)), "Failed in fallback mode"))

\* _forward_messages_batch: one bulk call and its except clauses
forward_messages_batch_noRetry(w, out) ==
    CASE out.kind = "ok" -> returned(deliver(w, Msgs(w.p)), Msgs(w.p))
      [] out.kind = "FloodWaitError" ->
            IF handle_long_flood_wait(out.seconds) = "slept"
            THEN raised(w, "FloodWaitError")
            ELSE raised(w, "AccountLimitedError")
      [] out.kind = "PeerFloodError" -> raised(w, "AccountLimitedError")
      [] out.kind \in ServerErrors ->
            [w EXCEPT !.p.pc = "single", !.p.fwd.i = 1,
                      !.p.fwd.attempt = 0, !.p.fwd.results = <<>>,
                      !.p.fwd.fallback = @ \cup {w.p.fwd.d}]
      [] OTHER -> raised(w, out.kind)

forward_messages_batch(w, out) ==
    CASE out.kind = "ok" -> returned(deliver(w, Msgs(w.p)), Msgs(w.p))
      [] out.kind = "FloodWaitError" ->
            IF handle_long_flood_wait(out.seconds) = "slept"
            THEN w
            ELSE raised(w, "AccountLimitedError")
      [] out.kind = "PeerFloodError" -> raised(w, "AccountLimitedError")
      [] out.kind \in ServerErrors ->
            [w EXCEPT !.p.pc = "single", !.p.fwd.i = 1,
                      !.p.fwd.attempt = 0, !.p.fwd.results = <<>>,
                      !.p.fwd.fallback = @ \cup {w.p.fwd.d}]
      [] OTHER -> raised(w, out.kind)

\* _forward_one_by_one: the loop moves to the next message, or returns
next_single(w) ==
    IF w.p.fwd.i < Len(Msgs(w.p))
    THEN [w EXCEPT !.p.fwd.i = @ + 1, !.p.fwd.attempt = 0]
    ELSE returned(w, w.p.fwd.results)

\* _forward_single_message inside _forward_one_by_one: one attempt
forward_single_message(w, out) ==
    LET f == w.p.fwd
        m == Msgs(w.p)[f.i]
    IN CASE out.kind = "ok" ->
              next_single([deliver(w, <<m>>) EXCEPT !.p.fwd.results = Append(@, m)])
         [] out.kind = "FloodWaitError" ->
              IF handle_long_flood_wait(out.seconds) = "slept"
              THEN IF f.attempt + 1 < retry_count
                   THEN [w EXCEPT !.p.fwd.attempt = @ + 1]
                   ELSE next_single(w)
              ELSE next_single(w)
         [] OTHER ->
              IF f.attempt < retry_count - 1
              THEN [w EXCEPT !.p.fwd.attempt = @ + 1]
              ELSE IF out.kind = "PeerFloodError"
                   THEN raised(w, "AccountLimitedError")
                   ELSE next_single(w)

\* forward_to_destinations: re-fetch after FileReferenceExpiredError
SubSeqs(s) ==
    LET keep(S) == [i \in 1..Cardinality(S) |->
                      s[CHOOSE k \in S : Cardinality({j \in S : j < k}) = i - 1]]
    IN {keep(S) : S \in SUBSET (1..Len(s))}

refetched(w, fresh) ==
    IF fresh = <<>>
    THEN next_dest(w)
    ELSE [w EXCEPT !.p.pc = "call", !.p.fwd.ctx = "stale", !.p.fwd.fresh = fresh]

refetch_failed(w) ==
    next_dest(record_failed(w, w.p.batch, "Media unavailable"))

\* forward_all: one turn of the message loop
next_message(w, m, forwardable) ==
    IF w.p.shutdown_requested
    THEN after_loop(w)
    ELSE IF ~forwardable
    THEN [w EXCEPT !.p.cursor = m, !.p.skipped = @ + 1]
    ELSE LET w1 == [w EXCEPT !.p.cursor = m, !.p.batch = Append(@, m)]
         IN IF Len(w1.p.batch) >= w1.p.args.batch_size
            THEN batch_ready(w1, FALSE)
            ELSE w1

\* forward_all is entered by cmd_forward_all or cmd_resume
clamp_batch_size_none(batch_size) == batch_size

clamp_batch_size(batch_size) == Min(batch_size, MAX_BATCH_SIZE)

run_forward_all(w, args, resumed) ==
    [w EXCEPT
        !.p = [IdleProc(NoExit) EXCEPT
                 !.pc = "iter",
                 !.args = [args EXCEPT !.batch_size = clamp_batch_size(@)],
                 !.cursor = args.min_id],
        !.h.args = args,
        !.h.calls = <<>>,
        !.h.delivered = {},
        !.h.deleted = {},
        !.h.run = [NoRun EXCEPT !.resumed = resumed]]

exit_process(w, code) ==
    [w EXCEPT !.sm.cur = NoJob, !.p = IdleProc(code)]

load(w) == [w EXCEPT !.sm = [jobs |-> w.sm.file, cur |-> NoJob, file |-> w.sm.file]]

cmd_forward_all(w, args, proceed) ==
    IF ~args.dry_run /\ ~proceed
    THEN exit_process(load(w), 1)
    ELSE LET w1 == load(w)
             id == w1.created + 1
             w2 == [w1 EXCEPT
                     !.sm = create_job(w1.sm, id, "forward-all",
                              [destinations |-> args.dest_ids,
                               delete_after |-> args.delete_after,
                               batch_size |-> Min(args.batch_size, 100)]),
                     !.created = id,
                     !.h.dry = args.dry_run,
                     !.h.start = args.min_id]
         IN run_forward_all(w2, args, FALSE)

cmd_resume_fromStart(w, job_id, is_authorized) ==
    LET w1 == [load(w) EXCEPT !.h.run = NoRun]
    IN IF ~resume_ok(w1.sm, job_id)
       THEN exit_process(w1, 1)
       ELSE LET w2 == [w1 EXCEPT !.sm = resume_job(w1.sm, job_id)]
                job == w2.sm.jobs[job_id]
            IN IF ~is_authorized
               THEN exit_process(w2, 1)
               ELSE IF job.job_type = "forward-all"
               THEN run_forward_all(w2,
                        [dest_ids |-> job.destinations,
                         delete_after |-> job.delete_after,
                         batch_size |-> job.batch_size,
                         dry_run |-> FALSE,
                         min_id |-> 0], TRUE)
               ELSE exit_process(w2, 1)

cmd_resume(w, job_id, is_authorized) ==
    LET w1 == [load(w) EXCEPT !.h.run = NoRun]
    IN IF ~resume_ok(w1.sm, job_id)
       THEN exit_process(w1, 1)
       ELSE LET w2 == [w1 EXCEPT !.sm = resume_job(w1.sm, job_id)]
                job == w2.sm.jobs[job_id]
            IN IF ~is_authorized
               THEN exit_process(w2, 1)
               ELSE IF job.job_type = "forward-all"
               THEN run_forward_all(w2,
                        [dest_ids |-> job.destinations,
                         delete_after |-> job.delete_after,
                         batch_size |-> job.batch_size,
                         dry_run |-> FALSE,
                         min_id |-> job.last_message_id], TRUE)
               ELSE exit_process(w2, 1)

handler_neverExits(w) ==
    [w EXCEPT !.p.shutdown_requested = TRUE]

\* GracefulShutdown._handler
handler(w) ==
    IF w.p.shutdown_requested
    THEN exit_process(w, 1)
    ELSE [w EXCEPT !.p.shutdown_requested = TRUE]

(***************************************************************************)
(* The Job Store driven by an arbitrary caller in one process.             *)
(***************************************************************************)
Destinations == {<<1>>, <<1, 2>>}
StoreOpts == [destinations : {<<1>>}, delete_after : {FALSE}, batch_size : {100}]
Errors == {"account-limited", "exception"}
Deltas == {<<p, k, k>> : p \in 0..MaxCount, k \in 0..MaxCount}

StoreInit ==
    /\ jobs = <<>>
    /\ current_job_id = NoJob
    /\ jobs_file = <<>>
    /\ created = 0
    /\ last_op = [op |-> "init", job_id |-> NoJob, ret |-> NoJob]
    /\ source = [last |-> 0, forwardable |-> {}]
    /\ proc = IdleProc(NoExit)
    /\ NoDaemonWorld
    /\ hist = NoHist

CreateJob ==
    /\ created < MaxJobs
    /\ \E job_type \in JobType, opts \in StoreOpts :
         /\ SetSM(create_job(SM, created + 1, job_type, opts))
         /\ created' = created + 1
         /\ last_op' = [op |-> "create_job", job_id |-> created + 1, ret |-> created + 1]
    /\ UNCHANGED <<source, proc, hist, daemonVars>>

SaveCheckpoint ==
    /\ \E message_id \in 1..MaxMsgId, d \in Deltas :
         /\ has_current(SM) =>
              /\ jobs[current_job_id].total_processed + d[1] <= MaxCount
              /\ jobs[current_job_id].total_skipped + d[2] <= MaxCount
              /\ jobs[current_job_id].total_failed + d[3] <= MaxCount
         /\ SetSM(save_checkpoint(SM, message_id, d[1], d[2], d[3]))
         /\ last_op' = [op |-> "save_checkpoint", job_id |-> NoJob, ret |-> NoJob]
    /\ UNCHANGED <<created, source, proc, hist, daemonVars>>

UpdateProgress ==
    /\ \E message_id \in 1..MaxMsgId, d \in Deltas :
         /\ SetSM(update_progress(SM, message_id, d[1], d[2], d[3]))
         /\ last_op' = [op |-> "update_progress", job_id |-> NoJob, ret |-> NoJob]
    /\ UNCHANGED <<created, source, proc, hist, daemonVars>>

MarkInterrupted ==
    /\ \E error \in {NoError, "exception"} :
         SetSM(mark_interrupted(SM, error))
    /\ last_op' = [op |-> "mark_interrupted", job_id |-> NoJob, ret |-> NoJob]
    /\ UNCHANGED <<created, source, proc, hist, daemonVars>>

MarkCompleted ==
    /\ SetSM(mark_completed(SM))
    /\ last_op' = [op |-> "mark_completed", job_id |-> NoJob, ret |-> NoJob]
    /\ UNCHANGED <<created, source, proc, hist, daemonVars>>

MarkFailed ==
    /\ SetSM(mark_failed(SM, "account-limited"))
    /\ last_op' = [op |-> "mark_failed", job_id |-> NoJob, ret |-> NoJob]
    /\ UNCHANGED <<created, source, proc, hist, daemonVars>>

ResumeJob ==
    /\ \E job_id \in 1..MaxJobs :
         /\ SetSM(resume_job(SM, job_id))
         /\ last_op' = [op |-> "resume_job", job_id |-> job_id,
                        ret |-> IF resume_ok(SM, job_id) THEN job_id ELSE NoJob]
    /\ UNCHANGED <<created, source, proc, hist, daemonVars>>

DeleteJob ==
    /\ \E job_id \in 1..MaxJobs :
         /\ SetSM(delete_job(SM, job_id))
         /\ last_op' = [op |-> "delete_job", job_id |-> job_id, ret |-> NoJob]
    /\ UNCHANGED <<created, source, proc, hist, daemonVars>>

CleanupOldJobs ==
    /\ \E aged \in SUBSET (1..MaxJobs) :
         SetSM(cleanup_old_jobs(SM, aged))
    /\ last_op' = [op |-> "cleanup_old_jobs", job_id |-> NoJob, ret |-> NoJob]
    /\ UNCHANGED <<created, source, proc, hist, daemonVars>>

StoreNext ==
    \/ CreateJob
    \/ SaveCheckpoint
    \/ UpdateProgress
    \/ MarkInterrupted
    \/ MarkCompleted
    \/ MarkFailed
    \/ ResumeJob
    \/ DeleteJob
    \/ CleanupOldJobs

vars == <<jobs, current_job_id, jobs_file, created, last_op, source, proc, hist,
          daemons_file, os_procs, shell>>

StoreSpec == StoreInit /\ [][StoreNext]_vars

(***************************************************************************)
(* One forward-all job over its whole life: the forward-all command, the   *)
(* remote's answers, interrupt signals, and any number of resume commands. *)
(***************************************************************************)
MaxMsgs == 3
MaxFaults == 2
BatchSizes == {1, 2, 150}

ForwardAllArgs ==
    [dest_ids : Destinations, delete_after : BOOLEAN, batch_size : BatchSizes,
     dry_run : BOOLEAN, min_id : {0}]

Init ==
    /\ jobs = <<>>
    /\ current_job_id = NoJob
    /\ jobs_file = <<>>
    /\ created = 0
    /\ last_op = [op |-> "init", job_id |-> NoJob, ret |-> NoJob]
    /\ \E n \in 0..MaxMsgs : \E f \in SUBSET (1..n) :
         /\ source = [last |-> n, forwardable |-> f]
         /\ hist = [NoHist EXCEPT !.times = [m \in 1..n |-> 0]]
    /\ proc = IdleProc(NoExit)
    /\ NoDaemonWorld

CmdForwardAll ==
    /\ proc.pc = "idle"
    /\ created = 0
    /\ \E args \in ForwardAllArgs, proceed \in BOOLEAN :
         SetW(cmd_forward_all(W, args, proceed))
    /\ UNCHANGED <<last_op, source, daemonVars>>

CmdResume ==
    /\ proc.pc = "idle"
    /\ \E job_id \in 1..MaxJobs, is_authorized \in BOOLEAN :
         SetW(cmd_resume(W, job_id, is_authorized))
    /\ UNCHANGED <<last_op, source, daemonVars>>

NextMessage ==
    /\ proc.pc = "iter"
    /\ proc.cursor < source.last
    /\ SetW(next_message(W, proc.cursor + 1, proc.cursor + 1 \in source.forwardable))
    /\ UNCHANGED <<last_op, source, daemonVars>>

IterEnd ==
    /\ proc.pc = "iter"
    /\ proc.cursor >= source.last
    /\ SetW(after_loop(W))
    /\ UNCHANGED <<last_op, source, daemonVars>>

IterError ==
    /\ proc.pc = "iter"
    /\ hist.faults < MaxFaults
    /\ SetW(cmd_exception([W EXCEPT !.h.faults = @ + 1]))
    /\ UNCHANGED <<last_op, source, daemonVars>>

ForwardBatch ==
    /\ proc.pc = "call"
    /\ \E out \in RemoteOutcomes :
         /\ out.kind # "ok" => hist.faults < MaxFaults
         /\ SetW(forward_messages_batch(log_call(W, Msgs(proc), out), out))
    /\ UNCHANGED <<last_op, source, daemonVars>>

ForwardSingle ==
    /\ proc.pc = "single"
    /\ \E out \in RemoteOutcomes :
         /\ Costs(proc, out) => hist.faults < MaxFaults
         /\ SetW(forward_single_message(
                    log_call(W, <<Msgs(proc)[proc.fwd.i]>>, out), out))
    /\ UNCHANGED <<last_op, source, daemonVars>>

Refetch ==
    /\ proc.pc = "refetch"
    /\ \/ \E fresh \in SubSeqs(proc.batch) :
            /\ fresh # proc.batch => hist.faults < MaxFaults
            /\ SetW(refetched([W EXCEPT !.h.faults =
                                  IF fresh # proc.batch THEN @ + 1 ELSE @], fresh))
       \/ /\ hist.faults < MaxFaults
          /\ SetW(refetch_failed([W EXCEPT !.h.faults = @ + 1]))
    /\ UNCHANGED <<last_op, source, daemonVars>>

ForwardReturned ==
    /\ proc.pc = "result"
    /\ SetW(forward_returned(W))
    /\ UNCHANGED <<last_op, source, daemonVars>>

Signal ==
    /\ proc.pc # "idle"
    /\ SetW(handler(W))
    /\ UNCHANGED <<last_op, source, daemonVars>>

Next ==
    \/ CmdForwardAll
    \/ CmdResume
    \/ NextMessage
    \/ IterEnd
    \/ IterError
    \/ ForwardBatch
    \/ ForwardReturned
    \/ ForwardSingle
    \/ Refetch
    \/ Signal

Spec == Init /\ [][Next]_vars

(***************************************************************************)
(* A fresh forward-all run that really forwards, over a backlog of known   *)
(* size, with a remote that answers every call and no interrupt signal.    *)
(***************************************************************************)
ScenarioSizes == {99, 100, 101, 250}
ScenarioBatchSizes == BatchSizes \cup {MAX_BATCH_SIZE}

ScenarioArgs ==
    [dest_ids : Destinations, delete_after : BOOLEAN,
     batch_size : ScenarioBatchSizes, dry_run : {FALSE}, min_id : {0}]

ScenarioInit ==
    /\ jobs = <<>>
    /\ current_job_id = NoJob
    /\ jobs_file = <<>>
    /\ created = 0
    /\ last_op = [op |-> "init", job_id |-> NoJob, ret |-> NoJob]
    /\ \E n \in (0..MaxMsgs) \cup ScenarioSizes :
         \E f \in IF n <= MaxMsgs THEN SUBSET (1..n) ELSE {1..n} :
            /\ source = [last |-> n, forwardable |-> f]
            /\ hist = [NoHist EXCEPT !.times = [m \in 1..n |-> 0],
                                     !.faults = MaxFaults]
    /\ proc = IdleProc(NoExit)
    /\ NoDaemonWorld

ScenarioForwardAll ==
    /\ proc.pc = "idle"
    /\ created = 0
    /\ \E args \in ScenarioArgs : SetW(cmd_forward_all(W, args, TRUE))
    /\ UNCHANGED <<last_op, source, daemonVars>>

ScenarioNext ==
    \/ ScenarioForwardAll
    \/ NextMessage
    \/ IterEnd
    \/ ForwardBatch
    \/ ForwardReturned

ScenarioSpec == ScenarioInit /\ [][ScenarioNext]_vars

(***************************************************************************)
(* A fresh forward-all run in which the remote answers a bulk call either  *)
(* normally or with a flood wait that is not above the ceiling.            *)
(***************************************************************************)
FloodArgs ==
    [dest_ids : Destinations, delete_after : {FALSE},
     batch_size : BatchSizes, dry_run : {FALSE}, min_id : {0}]

FloodOutcomes ==
    {out \in RemoteOutcomes :
        \/ out.kind = "ok"
        \/ out.kind = "FloodWaitError" /\ out.seconds <= FLOOD_CEILING}

FloodInit ==
    /\ jobs = <<>>
    /\ current_job_id = NoJob
    /\ jobs_file = <<>>
    /\ created = 0
    /\ last_op = [op |-> "init", job_id |-> NoJob, ret |-> NoJob]
    /\ \E n \in 0..MaxMsgs : \E f \in SUBSET (1..n) :
         /\ source = [last |-> n, forwardable |-> f]
         /\ hist = [NoHist EXCEPT !.times = [m \in 1..n |-> 0]]
    /\ proc = IdleProc(NoExit)
    /\ NoDaemonWorld

FloodForwardAll ==
    /\ proc.pc = "idle"
    /\ created = 0
    /\ \E args \in FloodArgs : SetW(cmd_forward_all(W, args, TRUE))
    /\ UNCHANGED <<last_op, source, daemonVars>>

FloodForwardBatch ==
    /\ proc.pc = "call"
    /\ \E out \in FloodOutcomes :
         /\ out.kind # "ok" => hist.faults < MaxFaults
         /\ SetW(forward_messages_batch(log_call(W, Msgs(proc), out), out))
    /\ UNCHANGED <<last_op, source, daemonVars>>

FloodNext ==
    \/ FloodForwardAll
    \/ NextMessage
    \/ IterEnd
    \/ FloodForwardBatch
    \/ ForwardReturned

FloodSpec == FloodInit /\ [][FloodNext]_vars



(***************************************************************************)
(* Live forwarding: forward-live with one source (cmd_forward_live_single  *)
(* running Forwarder.start_live_forward). New-message events arrive one    *)
(* at a time; each is handled by one forward_to_destinations call.         *)
(***************************************************************************)
LiveArgs == [dest_ids : Destinations, delete_after : BOOLEAN]

\* start_live_forward: the handler is registered, the client runs
start_live_forward(w, args) ==
    [w EXCEPT
        !.p = [IdleProc(NoExit) EXCEPT
                 !.pc = "live", !.live = TRUE,
                 !.args = [dest_ids |-> args.dest_ids,
                           delete_after |-> args.delete_after,
                           batch_size |-> 1, dry_run |-> FALSE, min_id |-> 0]],
        !.h.args = [dest_ids |-> args.dest_ids, delete_after |-> args.delete_after,
                    batch_size |-> 1, dry_run |-> FALSE, min_id |-> 0],
        !.h.calls = <<>>,
        !.h.delivered = {},
        !.h.deleted = {},
        !.h.run = NoRun]

cmd_forward_live_single(w, args, proceed) ==
    IF ~proceed
    THEN exit_process(load(w), 1)
    ELSE LET w1 == load(w)
             id == w1.created + 1
         IN start_live_forward(
              [w1 EXCEPT
                 !.sm = create_job(w1.sm, id, "forward-live",
                          [destinations |-> args.dest_ids,
                           delete_after |-> args.delete_after,
                           batch_size |-> 100]),
                 !.created = id], args)

\* start_live_forward.handler: a NewMessage event of the source
live_handler(w, m, forwardable) ==
    IF ~forwardable
    THEN [w EXCEPT !.p.cursor = m]
    ELSE start_forward([w EXCEPT !.p.cursor = m, !.p.batch = <<m>>], FALSE)

\* start_live_forward.handler: forward_to_destinations has returned
live_handler_done(w) ==
    [w EXCEPT !.p.pc = "live", !.p.batch = <<>>, !.p.fwd = NoFwd]

\* run_until_disconnected returns: mark_completed, disconnect, return 0
live_disconnected(w) ==
    exit_process([w EXCEPT !.sm = mark_completed(w.sm)], 0)

LiveStart ==
    /\ proc.pc = "idle"
    /\ created = 0
    /\ \E args \in LiveArgs, proceed \in BOOLEAN :
         SetW(cmd_forward_live_single(W, args, proceed))
    /\ UNCHANGED <<last_op, source, daemonVars>>

LiveEvent ==
    /\ proc.pc = "live"
    /\ proc.cursor < source.last
    /\ SetW(live_handler(W, proc.cursor + 1, proc.cursor + 1 \in source.forwardable))
    /\ UNCHANGED <<last_op, source, daemonVars>>

LiveHandled ==
    /\ proc.pc = "result"
    /\ SetW(live_handler_done(W))
    /\ UNCHANGED <<last_op, source, daemonVars>>

LiveDisconnect ==
    /\ proc.pc = "live"
    /\ SetW(live_disconnected(W))
    /\ UNCHANGED <<last_op, source, daemonVars>>

LiveNext ==
    \/ LiveStart
    \/ LiveEvent
    \/ ForwardBatch
    \/ ForwardSingle
    \/ Refetch
    \/ LiveHandled
    \/ LiveDisconnect

LiveSpec == Init /\ [][LiveNext]_vars

(***************************************************************************)
(* The five batch commands of cli.py (forward-last, forward-all,           *)
(* delete-last, delete-all, resume) as a control skeleton: connection,     *)
(* installation of the signal handlers, pre-flight verification, job       *)
(* creation, the orchestrator call as one step, and every way out.         *)
(* A command value is c = [sm, created, p]; p is the command's process.    *)
(***************************************************************************)
MaxCommandJobs == 1

Commands == {"forward-last", "forward-all", "delete-last", "delete-all", "resume"}
ForwardCommands == {"forward-last", "forward-all"}
DeleteCommands == {"delete-last", "delete-all"}

\* what signal.getsignal gives in a fresh interpreter
SignalHandlers == {[sigint |-> "default_int_handler", sigterm |-> "SIG_DFL"],
                   [sigint |-> "SIG_IGN", sigterm |-> "SIG_IGN"]}
NoHandler == "None"

CommandArgs == [dry_run : BOOLEAN, delete : BOOLEAN, yes : BOOLEAN, job_id : 1..MaxJobs]

\* what Telegram and the terminal will answer to the pre-flight checks
Chats == [source : {"ok", "noforwards"},
          dest_writable : BOOLEAN,
          can_delete : BOOLEAN,
          answer : {"y", "n"}]

NoChats == [source |-> "ok", dest_writable |-> TRUE, can_delete |-> TRUE, answer |-> "y"]

ReadRequests == {"get_entity", "iter_messages", "get_me", "GetParticipantRequest"}
WriteRequests == {"forward_messages", "delete_messages"}

NoCommand ==
    [pc |-> "idle", cmd |-> "none",
     args |-> [dry_run |-> FALSE, delete |-> FALSE, yes |-> FALSE, job_id |-> 1],
     chats |-> NoChats,
     shutdown_requested |-> FALSE,
     sigint |-> "default_int_handler", sigterm |-> "SIG_DFL",
     prev_sigint |-> "default_int_handler", prev_sigterm |-> "SIG_DFL",
     original_sigint |-> NoHandler, original_sigterm |-> NoHandler,
     verified |-> "none", started |-> FALSE, requests |-> {},
     jobs_before |-> <<>>, path |-> "none", exit_code |-> NoExit]

Cmd == [sm |-> SM, created |-> created, p |-> proc]

SetCmd(c) ==
    /\ SetSM(c.sm)
    /\ created' = c.created
    /\ proc' = c.p

\* GracefulShutdown.setup
setup(p) ==
    [p EXCEPT !.original_sigint = p.sigint, !.sigint = "_handler",
              !.original_sigterm = p.sigterm, !.sigterm = "_handler"]

cleanup_sigintOnly(p) ==
    [p EXCEPT !.sigint = IF p.original_sigint # NoHandler THEN p.original_sigint ELSE @]

\* GracefulShutdown.cleanup
cleanup(p) ==
    [p EXCEPT !.sigint = IF p.original_sigint # NoHandler THEN p.original_sigint ELSE @,
              !.sigterm = IF p.original_sigterm # NoHandler THEN p.original_sigterm ELSE @]

create_shutdown_handler(p) == setup(p)

\* the command function returns `code`: main() passes it to sys.exit
return_code(c, code, path) ==
    [c EXCEPT !.p.pc = "done", !.p.exit_code = code, !.p.path = path]

\* the process is gone; the job file stays
exit_command(c) ==
    [c EXCEPT !.sm.cur = NoJob, !.sm.jobs = c.sm.file, !.p = NoCommand]

\* a return statement inside try ... finally: shutdown.cleanup()
return_in_try(c, code, path) ==
    return_code([c EXCEPT !.p = cleanup(c.p)], code, path)

\* an exception leaving try ... finally: shutdown.cleanup(), caught by the
\* command's except AccountLimitedError / except Exception clauses
raise_in_try(c, kind, path) ==
    LET c1 == [c EXCEPT !.p = cleanup(c.p)]
        sm1 == IF c.p.cmd \in DeleteCommands THEN c1.sm
               ELSE IF kind = "AccountLimitedError"
                    THEN mark_failed(c1.sm, "account-limited")
                    ELSE mark_interrupted(c1.sm, "exception")
    IN return_code([c1 EXCEPT !.sm = sm1], 1, path)

\* utils.check_forward_restrictions
check_forward_restrictions(chats) == chats.source = "ok"

\* utils.check_delete_permission
check_delete_permission(chats) == chats.can_delete

\* input("Proceed? [y/N]") = 'y'
confirmed(chats) == chats.answer = "y"

\* Forwarder.verify_operation
verify_operation(chats, delete_after, skip_confirm) ==
    IF ~check_forward_restrictions(chats) THEN FALSE
    ELSE IF delete_after /\ ~check_delete_permission(chats) THEN FALSE
    ELSE IF ~skip_confirm /\ ~confirmed(chats) THEN FALSE
    ELSE TRUE

\* Forwarder.verify_delete_operation
verify_delete_operation(chats, skip_confirm, dry_run) ==
    IF ~check_delete_permission(chats) THEN FALSE
    ELSE IF ~skip_confirm /\ ~dry_run /\ ~confirmed(chats) THEN FALSE
    ELSE TRUE

\* the start of a command up to create_shutdown_handler
start_command(c, cmd, args, chats, handlers, is_authorized) ==
    LET p0 == [NoCommand EXCEPT
                  !.pc = "start", !.cmd = cmd, !.args = args, !.chats = chats,
                  !.sigint = handlers.sigint, !.sigterm = handlers.sigterm,
                  !.prev_sigint = handlers.sigint, !.prev_sigterm = handlers.sigterm,
                  !.jobs_before = c.sm.file]
        c0 == [sm |-> [jobs |-> c.sm.file, cur |-> NoJob, file |-> c.sm.file],
               created |-> c.created, p |-> p0]
        c1 == IF cmd = "resume"
              THEN [c0 EXCEPT !.sm = resume_job(c0.sm, args.job_id)]
              ELSE c0
    IN IF cmd = "resume" /\ ~resume_ok(c0.sm, args.job_id)
       THEN return_code(c0, 1, "not-installed")
       ELSE IF ~is_authorized
       THEN return_code(c1, 1, "not-installed")
       ELSE [c1 EXCEPT !.p = [create_shutdown_handler(c1.p) EXCEPT
                                 !.pc = IF cmd = "resume" THEN "execute" ELSE "installed"]]

\* cmd_forward_last / cmd_forward_all from the try block to the orchestrator call
verify_forward(c, raises) ==
    LET p == c.p
        proceed == verify_operation(p.chats, p.args.delete, p.args.yes)
        id == c.created + 1
        c1 == [c EXCEPT
                 !.sm = create_job(c.sm, id, p.cmd,
                          [destinations |-> <<1>>, delete_after |-> p.args.delete,
                           batch_size |-> 100]),
                 !.created = id,
                 !.p.pc = "execute"]
    IN IF p.args.dry_run THEN c1
       ELSE IF raises THEN raise_in_try([c EXCEPT !.p.requests = @ \cup {"get_entity"}],
                                        "Exception", "verify-failed")
       ELSE LET c2 == [c EXCEPT
                         !.p.verified = IF proceed THEN "true" ELSE "false",
                         !.p.requests = @ \cup {"get_entity"}
                              \cup (IF check_forward_restrictions(p.chats)
                                    THEN {"iter_messages"} ELSE {})
                              \cup (IF check_forward_restrictions(p.chats) /\ p.args.delete
                                    THEN {"get_me", "GetParticipantRequest"} ELSE {})]
            IN IF ~proceed THEN return_in_try(c2, 1, "declined")
               ELSE [c1 EXCEPT !.p.verified = c2.p.verified, !.p.requests = c2.p.requests]

\* cmd_delete_last / cmd_delete_all from the try block to the orchestrator call
verify_delete(c, raises) ==
    LET p == c.p
        proceed == verify_delete_operation(p.chats, p.args.yes, p.args.dry_run)
        c2 == [c EXCEPT
                 !.p.verified = IF proceed THEN "true" ELSE "false",
                 !.p.requests = @ \cup {"get_entity", "iter_messages", "get_me",
                                        "GetParticipantRequest"}]
    IN IF raises THEN raise_in_try([c EXCEPT !.p.requests = @ \cup {"get_entity"}],
                                   "Exception", "verify-failed")
       ELSE IF ~proceed THEN return_in_try(c2, 1, "declined")
       ELSE [c2 EXCEPT !.p.pc = "execute"]

\* the orchestrator call (forward_last, forward_all, delete_last, delete_all)
\* and what the command does with its outcome
execute(c, outcome, last, failed) ==
    LET p == c.p
        writes == IF p.args.dry_run /\ p.cmd # "resume" THEN {}
                  ELSE IF p.cmd \in DeleteCommands THEN {"delete_messages"}
                  ELSE IF p.args.delete /\ p.cmd # "resume"
                       THEN {"forward_messages", "delete_messages"}
                       ELSE {"forward_messages"}
        c1 == [c EXCEPT
                 !.p.started = TRUE,
                 !.p.requests = @ \cup {"iter_messages"} \cup (IF last > 0 THEN writes ELSE {}),
                 !.sm = IF p.cmd \in {"forward-all", "resume"} /\ last > 0
                        THEN update_progress(c.sm, last, 1, 0, failed)
                        ELSE c.sm]
        c2 == IF p.cmd \in DeleteCommands THEN c1
              ELSE [c1 EXCEPT !.sm = IF p.shutdown_requested
                                     THEN mark_interrupted(c1.sm, NoError)
                                     ELSE mark_completed(c1.sm)]
    IN IF p.cmd = "resume" /\ c.sm.jobs[c.sm.cur].job_type # "forward-all"
       THEN return_in_try(c, 1, "not-resumable-type")
       ELSE IF outcome = "AccountLimitedError" THEN raise_in_try(c1, outcome, "fatal")
       ELSE IF outcome = "Exception" THEN raise_in_try(c1, outcome, "exception")
       ELSE return_in_try(c2, IF failed = 0 THEN 0 ELSE 1,
                          IF p.shutdown_requested THEN "interrupted" ELSE "normal")

\* GracefulShutdown._handler run by SIGINT or SIGTERM; sys.exit(1) unwinds
\* through the command's finally clause
signal_handler(c) ==
    IF c.p.shutdown_requested
    THEN return_in_try(c, 1, "forced")
    ELSE [c EXCEPT !.p.shutdown_requested = TRUE]

CommandInit ==
    /\ jobs = <<>>
    /\ current_job_id = NoJob
    /\ jobs_file = <<>>
    /\ created = 0
    /\ last_op = [op |-> "init", job_id |-> NoJob, ret |-> NoJob]
    /\ source = [last |-> 0, forwardable |-> {}]
    /\ proc = NoCommand
    /\ NoDaemonWorld
    /\ hist = NoHist

StartCommand ==
    /\ proc.pc = "idle"
    /\ \E cmd \in Commands, args \in CommandArgs, chats \in Chats,
          handlers \in SignalHandlers, is_authorized \in BOOLEAN :
         /\ cmd \in ForwardCommands => created < MaxCommandJobs
         /\ cmd = "resume" => args.dry_run = FALSE /\ args.delete = FALSE /\ args.yes = FALSE
         /\ cmd # "resume" => args.job_id = 1
         /\ cmd \in DeleteCommands => args.delete = FALSE
         /\ SetCmd(start_command(Cmd, cmd, args, chats, handlers, is_authorized))
    /\ UNCHANGED <<last_op, source, hist, daemonVars>>

VerifyForward ==
    /\ proc.pc = "installed"
    /\ proc.cmd \in ForwardCommands
    /\ \E raises \in BOOLEAN : SetCmd(verify_forward(Cmd, raises))
    /\ UNCHANGED <<last_op, source, hist, daemonVars>>

VerifyDelete ==
    /\ proc.pc = "installed"
    /\ proc.cmd \in DeleteCommands
    /\ \E raises \in BOOLEAN : SetCmd(verify_delete(Cmd, raises))
    /\ UNCHANGED <<last_op, source, hist, daemonVars>>

Execute ==
    /\ proc.pc = "execute"
    /\ \E outcome \in {"return", "AccountLimitedError", "Exception"},
          last \in {0, MaxMsgId}, failed \in {0, MaxCount} :
         SetCmd(execute(Cmd, outcome, last, failed))
    /\ UNCHANGED <<last_op, source, hist, daemonVars>>

CommandSignal ==
    /\ proc.pc \in {"installed", "execute"}
    /\ SetCmd(signal_handler(Cmd))
    /\ UNCHANGED <<last_op, source, hist, daemonVars>>

ExitCommand ==
    /\ proc.pc = "done"
    /\ SetCmd(exit_command(Cmd))
    /\ UNCHANGED <<last_op, source, hist, daemonVars>>

CommandNext ==
    \/ StartCommand
    \/ VerifyForward
    \/ VerifyDelete
    \/ Execute
    \/ CommandSignal
    \/ ExitCommand

CommandSpec == CommandInit /\ [][CommandNext]_vars

(***************************************************************************)
(* Properties of the forward-all job (checked under Spec).                 *)
(***************************************************************************)
HasJob == 1 \in DOMAIN jobs_file
TheJob == jobs_file[1]
DestIds == {hist.args.dest_ids[i] : i \in 1..Len(hist.args.dest_ids)}
Transferable == {m \in 1..source.last : m \in source.forwardable /\ m > hist.start}

\* C1: with deleteAfterForward, a source message is deleted only if it was
\* actually delivered to every requested destination, whichever path
\* (bulk call, one-by-one fallback, stale-media retry) forwarded it.
\* (Stated for runs in which the remote signalled no account-level condition,
\* so that it does not rest on what C3 is about.)
C1_DeletedOnlyIfDeliveredEverywhere ==
    ~hist.limited =>
        \A m \in hist.deleted : \A d \in DestIds : <<m, d>> \in hist.delivered

\* C2: when a ForwardAll job completes in a run that really forwards (after
\* any number of interruptions and resumes), every transferable message after
\* the original starting checkpoint has been handed to the forwarder exactly
\* once, and no other message has.
C2_ForwardedExactlyOnce ==
    (/\ HasJob
     /\ TheJob.status = "completed"
     /\ hist.dry => hist.run.resumed)
    => \A m \in 1..source.last :
          hist.times[m] = IF m \in Transferable THEN 1 ELSE 0

\* C3: once the remote has signalled an account-level condition (a flood wait
\* above the ceiling, or a peer flood) no further forward call is made for the
\* job, and the command ends with the job Failed and lastError set.
C3_AccountLimitStopsJob ==
    /\ ~hist.after_limit
    /\ (hist.limited /\ proc.pc = "idle") =>
           /\ HasJob
           /\ TheJob.status = "failed"
           /\ TheJob.last_error # NoError
           /\ ~resume_ok(SM, 1)

\* C4: a stop request never cuts a batch short: when forward_all returns,
\* every batch it started forwarding was attempted at every destination and
\* checkpointed, and at most one batch was started after the stop flag was set.
C4_StopNeverSplitsBatch ==
    /\ hist.run.stop_batches <= 1
    /\ hist.run.returned =>
          /\ hist.run.full_ckpts >= hist.run.batches
          /\ hist.run.ckpts >= hist.run.batches

C4_Witness ==
    /\ hist.run.returned
    /\ hist.run.stopped
    /\ hist.run.stop_batches = 1
    /\ hist.run.batches = 2
    /\ Len(hist.args.dest_ids) = 2
    /\ ~hist.dry

\* C5: a run that ends because a stop was requested leaves the job
\* Interrupted with no lastError set by the interruption, its checkpoint is
\* the last message of the last forwarded batch, and resume(jobId) succeeds.
C5_InterruptedIsResumable ==
    (hist.run.returned /\ hist.run.stopped) =>
        /\ HasJob
        /\ TheJob.status = "interrupted"
        /\ ~hist.run.resumed => TheJob.last_error = NoError
        /\ hist.run.last_full # 0 => TheJob.last_message_id = hist.run.last_full
        /\ resume_ok(SM, 1)


\* The condition the Job Store's interface gives for a resumable job.
Resumable(j) ==
    /\ j \in DOMAIN jobs
    /\ jobs[j].status = "interrupted"
    /\ jobs[j].job_type \in {"forward-all", "forward-last"}
    /\ jobs[j].last_message_id > 0

\* C6: over any sequence of Job Store operations a job is Running when it is
\* created, and its status changes only Running -> Completed, Running ->
\* Interrupted, Running -> Failed, or Interrupted -> Running, the last only in
\* a resume_job of that job; so Completed and Failed are never left.
C6_StatusTransitions ==
    [][/\ \A j \in DOMAIN jobs' \ DOMAIN jobs : jobs'[j].status = "running"
       /\ \A j \in DOMAIN jobs \cap DOMAIN jobs' :
            jobs'[j].status # jobs[j].status =>
                \/ /\ jobs[j].status = "running"
                   /\ jobs'[j].status \in {"completed", "interrupted", "failed"}
                \/ /\ jobs[j].status = "interrupted"
                   /\ jobs'[j].status = "running"
                   /\ last_op'.op = "resume_job"
                   /\ last_op'.job_id = j]_vars

C6_Witness ==
    /\ last_op.op = "resume_job"
    /\ last_op.ret # NoJob
    /\ jobs[last_op.ret].status = "running"
    /\ \E j \in DOMAIN jobs : jobs[j].status \in {"completed", "failed"}

\* C7: is_resumable holds of a job exactly when it is Interrupted, of kind
\* forward-all or forward-last, and has a checkpoint above 0; it is false for
\* every forward-live job; get_resumable_jobs returns exactly those jobs.
C7_ResumableIff ==
    /\ \A j \in DOMAIN jobs :
         /\ is_resumable(jobs[j]) <=> Resumable(j)
         /\ jobs[j].job_type = "forward-live" => ~is_resumable(jobs[j])
    /\ get_resumable_jobs(SM) = {j \in DOMAIN jobs : Resumable(j)}

C7_Witness ==
    \E j, k \in DOMAIN jobs :
        /\ jobs[j].job_type = "forward-live"
        /\ jobs[j].status = "interrupted"
        /\ jobs[j].last_message_id > 0
        /\ jobs[k].job_type = "forward-last"
        /\ get_resumable_jobs(SM) = {k}

\* C8: resume_job on a resumable job returns it, makes it Running and current,
\* keeps its checkpoint and every other job, and persists the table; on an
\* unknown or non-resumable job it returns nothing and changes neither the
\* job records, nor the current-job pointer, nor the persisted table.
C8_ResumeFrame ==
    [][last_op'.op = "resume_job" =>
        LET id == last_op'.job_id
        IN IF Resumable(id)
           THEN /\ last_op'.ret = id
                /\ DOMAIN jobs' = DOMAIN jobs
                /\ jobs'[id] = [jobs[id] EXCEPT !.status = "running"]
                /\ \A j \in DOMAIN jobs \ {id} : jobs'[j] = jobs[j]
                /\ current_job_id' = id
                /\ jobs_file' = jobs'
           ELSE /\ last_op'.ret = NoJob
                /\ UNCHANGED <<jobs, current_job_id, jobs_file>>]_vars

C8_Witness ==
    /\ last_op.op = "resume_job"
    /\ last_op.ret = last_op.job_id
    /\ current_job_id = last_op.job_id
    /\ jobs[last_op.job_id].status = "running"
    /\ jobs[last_op.job_id].last_message_id > 0
    /\ jobs_file = jobs

\* C9: within one forward_all run the forward calls are made one after
\* another in batch order and, inside a batch, in destination order; every
\* call of batch k is made while exactly k-1 checkpoints have been written;
\* every checkpoint is written after all destinations of its batch were
\* attempted; and once a checkpoint has been written the persisted
\* last_message_id is the last id of the most recent fully attempted batch.
C9_SequentialCheckpointing ==
    /\ \A i, j \in 1..Len(hist.calls) :
         i < j => \/ hist.calls[i].b < hist.calls[j].b
                  \/ /\ hist.calls[i].b = hist.calls[j].b
                     /\ hist.calls[i].d <= hist.calls[j].d
    /\ \A i \in 1..Len(hist.calls) : hist.calls[i].c = hist.calls[i].b - 1
    /\ hist.run.full_ckpts = hist.run.ckpts
    /\ hist.run.ckpts > 0 =>
         /\ HasJob
         /\ TheJob.last_message_id = hist.run.last_full

\* C10: a fresh forward-all run over N transferable messages with requested
\* batch size B and no errors, with b = min(B, 100), makes exactly ceil(N/b)
\* forward calls per destination, each of b messages except a last remainder
\* and none of more than 100, writes exactly ceil(N/b) checkpoints and ends
\* with total_processed = N.
C10_BatchCounts ==
    hist.run.returned =>
        LET N == Cardinality(source.forwardable)
            b == Min(hist.args.batch_size, 100)
            K == (N + b - 1) \div b
            calls == hist.calls
        IN /\ \A d \in 1..Len(hist.args.dest_ids) :
                Cardinality({i \in 1..Len(calls) : calls[i].d = d}) = K
           /\ Len(calls) = K * Len(hist.args.dest_ids)
           /\ \A i \in 1..Len(calls) :
                /\ Len(calls[i].msgs) <= 100
                /\ calls[i].b \in 1..K
                /\ Len(calls[i].msgs) =
                      IF calls[i].b < K THEN b ELSE N - (K - 1) * b
           /\ hist.run.ckpts = K
           /\ TheJob.status = "completed"
           /\ TheJob.total_processed = N

C10_Witness ==
    /\ hist.run.returned
    /\ Cardinality(source.forwardable) = 250
    /\ hist.args.batch_size = 100
    /\ hist.args.dest_ids = <<1>>
    /\ [i \in 1..Len(hist.calls) |-> Len(hist.calls[i].msgs)] = <<100, 100, 50>>
    /\ hist.run.ckpts = 3
    /\ TheJob.total_processed = 250

\* C11: when a bulk forward call is answered with a flood wait not above the
\* ceiling, the very next forward call carries the same messages to the same
\* destination, in the same batch and with no checkpoint written in between
\* (while it is still pending the orchestrator is at that same call); so a
\* run that saw only such signals ends with one call per batch and
\* destination plus one per signal, and one checkpoint per batch.
C11_ShortFloodReissues ==
    LET calls == hist.calls
        shorts == Cardinality({i \in 1..Len(calls) : calls[i].short})
        N == Cardinality(source.forwardable)
        b == Min(hist.args.batch_size, 100)
        K == (N + b - 1) \div b
    IN /\ \A i \in 1..Len(calls) :
            calls[i].short =>
                IF i < Len(calls)
                THEN /\ calls[i + 1].msgs = calls[i].msgs
                     /\ calls[i + 1].d = calls[i].d
                     /\ calls[i + 1].b = calls[i].b
                     /\ calls[i + 1].c = calls[i].c
                ELSE /\ proc.pc = "call"
                     /\ Msgs(proc) = calls[i].msgs
                     /\ proc.fwd.d = calls[i].d
                     /\ hist.run.batches = calls[i].b
                     /\ hist.run.ckpts = calls[i].c
       /\ hist.run.returned =>
            /\ Len(calls) = K * Len(hist.args.dest_ids) + shorts
            /\ hist.run.ckpts = K

C11_Witness ==
    /\ hist.run.returned
    /\ hist.args.dest_ids = <<1>>
    /\ Len(hist.calls) = 4
    /\ [i \in 1..4 |-> hist.calls[i].b] = <<1, 2, 2, 3>>
    /\ hist.calls[2].short
    /\ hist.run.ckpts = 3

\* C12: applying save_checkpoint a second time with the same message id and
\* the same deltas leaves the current job's total_processed, total_skipped
\* and total_failed as they were after the first application; with no
\* current job both applications change nothing.
C12_CheckpointNoDoubleCount ==
    \A message_id \in 1..MaxMsgId, d \in Deltas :
        LET s1 == save_checkpoint(SM, message_id, d[1], d[2], d[3])
            s2 == save_checkpoint(s1, message_id, d[1], d[2], d[3])
        IN IF has_current(SM)
           THEN /\ s2.jobs[SM.cur].total_processed = s1.jobs[SM.cur].total_processed
                /\ s2.jobs[SM.cur].total_skipped = s1.jobs[SM.cur].total_skipped
                /\ s2.jobs[SM.cur].total_failed = s1.jobs[SM.cur].total_failed
           ELSE s1 = SM /\ s2 = SM

\* C13: save_checkpoint and update_progress change only the cursor and the
\* counters of the current job and leave every other job, the set of jobs
\* and the current-job pointer as they were; when the pointer is unset or
\* names no stored job they change nothing in memory or in the file.  Every
\* terminal transition leaves the store without a current job.
C13_ProgressFrame ==
    [][/\ last_op'.op \in {"save_checkpoint", "update_progress"} =>
            IF current_job_id # NoJob /\ current_job_id \in DOMAIN jobs
            THEN /\ DOMAIN jobs' = DOMAIN jobs
                 /\ current_job_id' = current_job_id
                 /\ \A j \in DOMAIN jobs \ {current_job_id} : jobs'[j] = jobs[j]
                 /\ [jobs'[current_job_id] EXCEPT
                        !.last_message_id = jobs[current_job_id].last_message_id,
                        !.total_processed = jobs[current_job_id].total_processed,
                        !.total_skipped = jobs[current_job_id].total_skipped,
                        !.total_failed = jobs[current_job_id].total_failed]
                      = jobs[current_job_id]
            ELSE UNCHANGED <<jobs, current_job_id, jobs_file>>
       /\ last_op'.op \in {"mark_interrupted", "mark_completed", "mark_failed"} =>
            ~(current_job_id' # NoJob /\ current_job_id' \in DOMAIN jobs')]_vars

C13_Witness ==
    /\ last_op.op = "save_checkpoint"
    /\ current_job_id \in DOMAIN jobs
    /\ jobs[current_job_id].last_message_id > 0
    /\ jobs[current_job_id].total_processed > 0
    /\ \E j \in DOMAIN jobs :
         /\ j # current_job_id
         /\ jobs[j].status = "interrupted"
         /\ jobs[j].last_message_id = 0

\* C14: after every mutating Job Store call the persisted job table equals
\* the in-memory job table, so a store freshly loaded from the file holds
\* exactly the same jobs with the same statuses and checkpoints.
C14_FileEqualsMemory ==
    /\ jobs_file = jobs
    /\ load(W).sm.jobs = jobs

C14_Witness ==
    /\ last_op.op = "mark_completed"
    /\ \E j \in DOMAIN jobs_file :
         /\ jobs_file[j].status = "completed"
         /\ jobs_file[j].last_message_id > 0
    /\ \E j \in DOMAIN jobs_file : jobs_file[j].status = "interrupted"

\* C15: over the whole life of a forward-all job, the first run and every
\* resumed run, the persisted last_message_id never decreases.
C15_CheckpointMonotone ==
    [][(HasJob /\ 1 \in DOMAIN jobs_file') =>
          jobs_file'[1].last_message_id >= TheJob.last_message_id]_vars

C15_Witness ==
    /\ HasJob
    /\ hist.run.resumed
    /\ hist.args.min_id > 0
    /\ hist.run.ckpts > 0
    /\ TheJob.last_message_id > hist.args.min_id

\* C16: while the shutdown handler is installed, the first SIGINT / SIGTERM
\* only sets shutdown_requested and the process goes on exactly where it was;
\* a signal that arrives while shutdown_requested is set ends the process at
\* once (exit code 1); shutdown_requested is never reset while the process
\* lives.
C16_SignalHandling ==
    [][/\ proc.pc # "idle" =>
            IF proc.shutdown_requested
            THEN /\ handler(W).p.pc = "idle"
                 /\ handler(W).p.exit_code = 1
                 /\ handler(W).sm.file = jobs_file
            ELSE handler(W) = [W EXCEPT !.p.shutdown_requested = TRUE]
       /\ (proc.shutdown_requested /\ proc'.pc # "idle") => proc'.shutdown_requested
       /\ (proc.pc # "idle" /\ ~proc.shutdown_requested /\ proc'.shutdown_requested) =>
            /\ proc' = [proc EXCEPT !.shutdown_requested = TRUE]
            /\ UNCHANGED <<jobs, current_job_id, jobs_file, created, source, hist>>]_vars

C16_Witness ==
    /\ proc.pc = "idle"
    /\ proc.exit_code = 1
    /\ HasJob
    /\ TheJob.status = "running"
    /\ hist.run.batches > 0

(***************************************************************************)
(* Properties of the batch commands (checked under CommandSpec).           *)
(***************************************************************************)
Installed == proc.original_sigint # NoHandler

\* C17: for each batch command, on every way out taken after the shutdown
\* handler was installed (normal completion, declined or failed verification,
\* interruption, fatal error, unexpected exception, forced exit) the SIGINT
\* and SIGTERM handlers that were in place before installation are in place
\* again when the command ends.
C17_HandlersRestored ==
    /\ (proc.pc = "done" /\ Installed) =>
            /\ proc.sigint = proc.prev_sigint
            /\ proc.sigterm = proc.prev_sigterm
    /\ (proc.pc \in {"installed", "execute"}) =>
            /\ Installed
            /\ proc.original_sigint = proc.prev_sigint
            /\ proc.original_sigterm = proc.prev_sigterm

C17_Witness ==
    /\ proc.pc = "done"
    /\ Installed
    /\ proc.cmd = "resume"
    /\ proc.path = "exception"
    /\ proc.prev_sigint = "SIG_IGN"
    /\ proc.sigint = "SIG_IGN"

\* C20: verify_operation returns false whenever the source forbids
\* forwarding, a destination lacks write access, or deletion was requested
\* without delete permission; verify_delete_operation returns false without
\* delete permission; whenever either returns false no forward or delete
\* request has been issued, no job has been created and the command ends
\* without starting the orchestrator.
C20_VerifyRefuses ==
    proc.verified # "none" =>
        /\ (/\ proc.cmd \in ForwardCommands
            /\ \/ proc.chats.source # "ok"
               \/ ~proc.chats.dest_writable
               \/ proc.args.delete /\ ~proc.chats.can_delete)
              => proc.verified = "false"
        /\ (proc.cmd \in DeleteCommands /\ ~proc.chats.can_delete)
              => proc.verified = "false"
        /\ proc.verified = "false" =>
              /\ proc.requests \cap WriteRequests = {}
              /\ jobs_file = proc.jobs_before
              /\ ~proc.started
              /\ proc.pc = "done"
              /\ proc.exit_code = 1

(***************************************************************************)
(* Properties of one forward_to_destinations call (checked under Spec).    *)
(***************************************************************************)
FailedFor(p, d) == {p.fwd.failed[i][1] : i \in {k \in 1..Len(p.fwd.failed) : p.fwd.failed[k][2] = d}}
SucceededFor(p, d) == {p.fwd.success[i][1] : i \in {k \in 1..Len(p.fwd.success) : p.fwd.success[k][2] = d}}
DeliveredTo(d) == {m \in Range(proc.batch) : <<m, d>> \in hist.delivered}

\* C18: when forwarding the batch to destination d ends with a
\* permission-class error (no write access, private, banned, admin
\* required), every message of the batch is recorded as failed for d and
\* nothing is recorded for any other destination, the next destination, if
\* there is one, is called with the full batch, and the job goes on: it stays
\* Running and forward_to_destinations returns to forward_all.
C18_PermissionErrorIsPerDestination ==
    proc.pc = "call" =>
        \A e \in PermissionErrors :
            LET out == [kind |-> e, seconds |-> 0]
                w2 == forward_messages_batch(log_call(W, Msgs(proc), out), out)
                d == Dest(proc)
                n == Len(proc.fwd.failed)
            IN /\ w2.p.batch = proc.batch
               /\ Len(w2.p.fwd.failed) = n + Len(proc.batch)
               /\ SubSeq(w2.p.fwd.failed, 1, n) = proc.fwd.failed
               /\ \A i \in 1..Len(proc.batch) :
                     /\ w2.p.fwd.failed[n + i][1] = proc.batch[i]
                     /\ w2.p.fwd.failed[n + i][2] = d
               /\ w2.p.fwd.success = proc.fwd.success
               /\ IF proc.fwd.d < Len(proc.args.dest_ids)
                  THEN /\ w2.p.pc = "call"
                       /\ w2.p.fwd.d = proc.fwd.d + 1
                       /\ Msgs(w2.p) = proc.batch
                  ELSE w2.p.pc = "result"
               /\ w2.sm = SM
               /\ has_current(SM) /\ jobs[current_job_id].status = "running"

C18_Witness ==
    /\ proc.pc = "result"
    /\ Len(proc.args.dest_ids) = 2
    /\ Len(proc.batch) = 2
    /\ Len(proc.fwd.exc) = 1
    /\ proc.fwd.exc[1].d = 1
    /\ proc.fwd.exc[1].kind \in PermissionErrors
    /\ FailedFor(proc, proc.args.dest_ids[1]) = Range(proc.batch)
    /\ SucceededFor(proc, proc.args.dest_ids[2]) = Range(proc.batch)
    /\ FailedFor(proc, proc.args.dest_ids[2]) = {}

SingleCalls(k) ==
    {i \in 1..Len(hist.calls) :
        /\ hist.calls[i].b = hist.run.batches
        /\ hist.calls[i].d = k
        /\ Len(hist.calls[i].msgs) = 1}

\* C19: when the bulk call of a batch for a destination fails with a
\* server-busy error, each message of the batch is attempted individually in
\* order, a message that fails does not keep the later ones from being
\* attempted, and the ForwardResult marks as succeeded for that destination
\* exactly the messages that were delivered to it and as failed exactly those
\* that were not.
C19_FallbackResultIsExact ==
    proc.pc = "result" =>
        \A k \in proc.fwd.fallback :
            LET d == proc.args.dest_ids[k]
            IN /\ \A m \in Range(proc.batch) :
                     \E i \in SingleCalls(k) : hist.calls[i].msgs = <<m>>
               /\ \A i, j \in SingleCalls(k) :
                     i < j => hist.calls[i].msgs[1] <= hist.calls[j].msgs[1]
               /\ SucceededFor(proc, d) = DeliveredTo(d)
               /\ FailedFor(proc, d) = Range(proc.batch) \ DeliveredTo(d)

(***************************************************************************)
(* Properties of live forwarding (checked under LiveSpec).                 *)
(***************************************************************************)
\* C21: while live forwarding is active, every new-message event whose
\* message is transferable is handed once to forward_to_destinations, which
\* attempts every destination; a non-transferable message is never
\* forwarded; a failure that is not account-level does not end live
\* forwarding; live forwarding ends only by a disconnect (job Completed) or
\* by an account-limited condition, which ends it with the job Failed.
C21_LiveForwarding ==
    /\ \A m \in 1..source.last :
          /\ m \notin source.forwardable =>
                /\ hist.times[m] = 0
                /\ \A d \in DestIds : <<m, d>> \notin hist.delivered
                /\ \A i \in 1..Len(hist.calls) : m \notin Range(hist.calls[i].msgs)
          /\ (proc.live /\ m \in source.forwardable /\ m <= proc.cursor) =>
                hist.times[m] = 1
    /\ (proc.live /\ proc.pc = "result") =>
          hist.run.attempted = 1..Len(proc.args.dest_ids)
    /\ (hist.limited /\ proc.pc \in {"live", "idle"}) =>
          /\ proc.pc = "idle"
          /\ HasJob /\ TheJob.status = "failed"
    /\ (proc.pc = "idle" /\ HasJob) =>
          \/ TheJob.status = "completed" /\ ~hist.limited
          \/ TheJob.status = "failed" /\ hist.limited

(***************************************************************************)
(* C30: a forward-all or resume command that returns exit code 0 had no    *)
(* (message, destination) pair in the failed list of any ForwardResult of  *)
(* its run; with at least one failed pair the exit code is 1.              *)
(***************************************************************************)
C30_ExitCodeReflectsFailures ==
    (proc.pc = "idle" /\ hist.run.returned) =>
        (proc.exit_code = 0 <=> ~hist.run.any_failed)

(***************************************************************************)
(* Background daemons: the command line of a daemonizable invocation, the  *)
(* restart argument bag saved in its DaemonProcess record and the command  *)
(* line that restore rebuilds from it (cli.py), as pure functions.         *)
(***************************************************************************)
DaemonCommands == {"forward-last", "forward-all", "forward-live"}
ActiveAccount == "main"
NoValue == "none"
DEFAULT_BATCH_SIZE == 100

\* decimal strings of the integer option values the model uses
IntValues == {5, 50, DEFAULT_BATCH_SIZE}
str(n) == CASE n = 5 -> "5" [] n = 50 -> "50" [] n = DEFAULT_BATCH_SIZE -> "100"
int(tok) == IF \E n \in IntValues : str(n) = tok
            THEN CHOOSE n \in IntValues : str(n) = tok
            ELSE 0

\* argparse.Namespace of a forwarding command; absent: NoValue, <<>>, FALSE, 0
NoNamespace ==
    [command |-> NoValue, account |-> NoValue, yes |-> FALSE,
     source |-> NoValue, dest |-> <<>>, drop_author |-> FALSE, delete |-> FALSE,
     daemon |-> FALSE, media_only |-> FALSE, count |-> 0, batch_size |-> 0,
     config |-> NoValue, routes |-> <<>>]

ParseError == [NoNamespace EXCEPT !.command = "error: exit 2"]

\* create_parser: options that take a value / that are flags, per subcommand
ValueOptions(command) ==
    {"-s", "-d"} \cup
    CASE command = "forward-last" -> {"--count"}
      [] command = "forward-all" -> {"--batch-size"}
      [] command = "forward-live" -> {"--config", "--route"}

FlagOptions(command) == {"--drop-author", "--delete", "--daemon", "--media-only"}

\* argparse: the subcommand's parser stores one option
store(ns, opt, v) ==
    CASE opt = "-s" -> [ns EXCEPT !.source = v]
      [] opt = "-d" -> [ns EXCEPT !.dest = Append(@, v)]
      [] opt = "--count" -> [ns EXCEPT !.count = int(v)]
      [] opt = "--batch-size" -> [ns EXCEPT !.batch_size = int(v)]
      [] opt = "--config" -> [ns EXCEPT !.config = v]
      [] opt = "--route" -> [ns EXCEPT !.routes = Append(@, v)]
      [] opt = "--drop-author" -> [ns EXCEPT !.drop_author = TRUE]
      [] opt = "--delete" -> [ns EXCEPT !.delete = TRUE]
      [] opt = "--daemon" -> [ns EXCEPT !.daemon = TRUE]
      [] opt = "--media-only" -> [ns EXCEPT !.media_only = TRUE]

\* create_parser: required=True of _add_forward_args and of --count
required_present(ns) ==
    /\ ns.command \in {"forward-last", "forward-all"} =>
          ns.source # NoValue /\ ns.dest # <<>>
    /\ ns.command = "forward-last" => ns.count # 0

\* argparse: the arguments after the subcommand go to the subcommand's
\* parser only; one it does not declare is "unrecognized arguments" (exit 2)
RECURSIVE parse_subcommand(_, _, _)
parse_subcommand(toks, i, ns) ==
    IF i > Len(toks)
    THEN IF required_present(ns) THEN ns ELSE ParseError
    ELSE IF toks[i] \in FlagOptions(ns.command)
    THEN parse_subcommand(toks, i + 1, store(ns, toks[i], TRUE))
    ELSE IF toks[i] \in ValueOptions(ns.command) /\ i < Len(toks)
    THEN parse_subcommand(toks, i + 2, store(ns, toks[i], toks[i + 1]))
    ELSE ParseError

\* create_parser: the global flags -y and -a come before the subcommand
RECURSIVE parse_global(_, _, _)
parse_global(toks, i, ns) ==
    IF i > Len(toks) THEN ParseError
    ELSE IF toks[i] = "-y" THEN parse_global(toks, i + 1, [ns EXCEPT !.yes = TRUE])
    ELSE IF toks[i] = "-a" /\ i < Len(toks)
    THEN parse_global(toks, i + 2, [ns EXCEPT !.account = toks[i + 1]])
    ELSE IF toks[i] \in DaemonCommands
    THEN parse_subcommand(toks, i + 1,
            [ns EXCEPT !.command = toks[i],
                       !.batch_size = IF toks[i] = "forward-all"
                                      THEN DEFAULT_BATCH_SIZE ELSE 0])
    ELSE ParseError

\* main: parser.parse_args() of a command line (argv[0] is the program)
parse_args(cmd) == parse_global(cmd, 2, NoNamespace)

\* the restart argument bag; a key that is absent reads as falsy
NoBag == [source |-> NoValue, dest |-> <<>>, drop_author |-> FALSE,
          delete |-> FALSE, media_only |-> FALSE, empty |-> TRUE]

_extract_daemon_args(args) ==
    [source |-> args.source, dest |-> args.dest,
     drop_author |-> args.drop_author, delete |-> args.delete,
     media_only |-> args.media_only, empty |-> FALSE]

NoCmd == <<>>

\* the tokens of a list option: one "-d x" per element
RECURSIVE repeated(_, _)
repeated(opt, values) ==
    IF values = <<>> THEN <<>>
    ELSE <<opt, Head(values)>> \o repeated(opt, Tail(values))

_build_restore_command(cfg) ==
    LET args == cfg.args
        src == IF args.source # NoValue THEN args.source ELSE cfg.source
        dst == IF args.dest # <<>> THEN args.dest ELSE cfg.dest
    IN IF args.empty \/ src = NoValue \/ dst = <<>> THEN NoCmd
       ELSE <<"telegram-cli">>
            \o (IF cfg.account # NoValue THEN <<"-a", cfg.account>> ELSE <<>>)
            \o <<cfg.command>>
            \o <<"-s", src>>
            \o repeated("-d", dst)
            \o (IF args.drop_author THEN <<"--drop-author">> ELSE <<>>)
            \o (IF args.delete THEN <<"--delete">> ELSE <<>>)
            \o (IF args.media_only THEN <<"--media-only">> ELSE <<>>)
            \o <<"--daemon", "-y">>

(***************************************************************************)
(* The daemon manager (daemon.py) as pure functions of a daemon world      *)
(* [file, os, sh]: file the persisted registry, os the process table, sh   *)
(* the administrative caller.  Worker processes run beside the caller;     *)
(* kill sleeps between its probes, so it is a sequence of steps that holds *)
(* the registry it loaded at its start.                                    *)
(***************************************************************************)
MaxPids == 4
KILL_PROBES == 10

Pids == 1..MaxPids
AliveStates == {"forked", "run", "term", "kill"}
ProcStates == {"free", "exited", "crashed", "foreign"} \cup AliveStates

\* state: free (pid never used), forked (detached, not yet registered), run
\* (daemonize has returned in the worker), term (SIGTERM received), kill
\* (SIGKILL pending), exited (interpreter exit, atexit hooks ran), crashed
\* (died without them), foreign (pid reused by another user's process);
\* call: the arguments daemonize was called with; printed: the pid daemonize
\* returned to the parent of this worker; ret: what it returned in the worker
NoCall == [command |-> NoValue, source |-> NoValue, dest |-> <<>>,
           args |-> NoBag, account |-> NoValue]
FreeProcess == [state |-> "free", call |-> NoCall, printed |-> 0, ret |-> -1]

NoRet == [op |-> "none", pid |-> 0, ok |-> FALSE, message |-> "none",
          confirmed |-> FALSE, listed |-> {}, candidates |-> {},
          dry_run |-> FALSE, launched |-> <<>>, restored |-> 0, failed |-> 0,
          exit_code |-> NoExit]

IdleShell == [pc |-> "idle", pid |-> 0, force |-> FALSE, processes |-> <<>>,
              probes |-> 0, sent |-> <<>>, ret |-> NoRet, killed |-> {}]

D == [file |-> daemons_file, os |-> os_procs, sh |-> shell]

SetD(d) ==
    /\ daemons_file' = d.file
    /\ os_procs' = d.os
    /\ shell' = d.sh

\* os.kill(pid, 0)
probe(os, pid) ==
    CASE os[pid].state \in AliveStates -> "ok"
      [] os[pid].state = "foreign" -> "PermissionError"
      [] OTHER -> "ProcessLookupError"

\* DaemonProcess.is_running
is_running(os, pid) == probe(os, pid) = "ok"

\* os.kill(pid, sig) on a live process: the signal is pending or handled
send_signal(os, pid, sig) ==
    [os EXCEPT ![pid].state = IF sig = "SIGKILL" \/ @ = "kill" THEN "kill" ELSE "term"]

without(processes, pid) == [q \in DOMAIN processes \ {pid} |-> processes[q]]

get_log_file(pid) == <<"daemon_", pid, ".log">>

\* main: the arguments of daemonize for a parsed command line
daemon_call(args) ==
    [command |-> args.command, source |-> args.source, dest |-> args.dest,
     args |-> _extract_daemon_args(args),
     account |-> IF args.account # NoValue THEN args.account ELSE ActiveAccount]

DaemonProcess(pid, call) ==
    [pid |-> pid, command |-> call.command, source |-> call.source,
     dest |-> call.dest, log_file |-> get_log_file(pid), args |-> call.args,
     account |-> call.account]

\* daemonize up to its two forks: first is the child of the first fork, which
\* exits at once; second is the child of the second fork, the worker.  The
\* parent's return value is the pid the first fork gave it.
daemonize(d, call, first, second) ==
    [d EXCEPT !.os[first].state = "exited",
              !.os[second] = [state |-> "forked", call |-> call,
                              printed |-> first, ret |-> -1]]

\* daemonize in the worker: _register_daemon under os.getpid(), return 0
_register_daemon(d, pid) ==
    [d EXCEPT !.file = [q \in DOMAIN d.file \cup {pid} |->
                          IF q = pid THEN DaemonProcess(pid, d.os[pid].call)
                          ELSE d.file[q]],
              !.os[pid].state = "run",
              !.os[pid].ret = 0]

\* atexit: _unregister_daemon, on interpreter exit
_unregister_daemon(d, pid) ==
    [d EXCEPT !.file = IF pid \in DOMAIN d.file THEN without(d.file, pid) ELSE d.file,
              !.os[pid].state = "exited"]

\* the process ends without running its exit hooks
died(d, pid) == [d EXCEPT !.os[pid].state = "crashed"]

_cleanup_dead_processes_keepDenied(file, os) ==
    [q \in {r \in DOMAIN file : probe(os, r) # "ProcessLookupError"} |-> file[q]]
_cleanup_dead_processes(file, os) ==
    [q \in {r \in DOMAIN file : is_running(os, r)} |-> file[q]]

\* the command has printed its result; killed: the pids kill reported ok for
command_returned(d, ret) ==
    [d EXCEPT !.sh.pc = "done",
              !.sh.ret = ret,
              !.sh.killed = @ \cup (IF ret.op = "kill" /\ ret.ok THEN {ret.pid} ELSE {})]

\* cmd_list_daemons: list_running
list_running(d) ==
    LET alive == _cleanup_dead_processes(d.file, d.os)
    IN command_returned([d EXCEPT !.file = alive],
                [NoRet EXCEPT !.op = "list", !.listed = DOMAIN alive, !.exit_code = 0])

\* kill: return (ok, message); forget: the entry is deleted and the registry
\* saved; gone: a probe or the signal call found no such process
kill_returns_keepEntry(d, ok, message, forget, gone) ==
    command_returned(d, [NoRet EXCEPT !.op = "kill", !.pid = d.sh.pid, !.ok = ok,
                              !.message = message, !.confirmed = gone,
                              !.exit_code = IF ok THEN 0 ELSE 1])
kill_returns(d, ok, message, forget, gone) ==
    LET pid == d.sh.pid
        processes == d.sh.processes
        file == IF forget /\ pid \in DOMAIN processes
                THEN without(processes, pid) ELSE d.file
    IN command_returned([d EXCEPT !.file = file],
                [NoRet EXCEPT !.op = "kill", !.pid = pid, !.ok = ok,
                              !.message = message, !.confirmed = gone,
                              !.exit_code = IF ok THEN 0 ELSE 1])

\* kill: load the registry, look at an unknown pid, send the first signal
kill(d, pid, force) ==
    LET sig == IF force THEN "SIGKILL" ELSE "SIGTERM"
        d1 == [d EXCEPT !.sh = [IdleShell EXCEPT !.pc = "kill", !.pid = pid,
                                  !.force = force, !.processes = d.file,
                                  !.killed = d.sh.killed]]
        found == probe(d.os, pid)
    IN IF pid \notin DOMAIN d.file /\ found = "ProcessLookupError"
       THEN kill_returns(d1, FALSE, "not found", FALSE, TRUE)
       ELSE IF pid \notin DOMAIN d.file /\ found = "PermissionError"
       THEN kill_returns(d1, FALSE, "Permission denied for PID", FALSE, FALSE)
       ELSE IF found = "PermissionError"
       THEN kill_returns(d1, FALSE, "Permission denied to kill", FALSE, FALSE)
       ELSE IF found = "ProcessLookupError"
       THEN kill_returns(d1, TRUE, "was not running", TRUE, TRUE)
       ELSE [d1 EXCEPT !.os = send_signal(d.os, pid, sig), !.sh.sent = <<sig>>]

\* kill: one turn of the wait loop (sleep 0.5 s, probe), and what follows
\* the loop when the last probe still finds the process
kill_probe(d) ==
    LET pid == d.sh.pid
        found == probe(d.os, pid)
        probes == d.sh.probes + 1
    IN IF found = "ProcessLookupError"
       THEN kill_returns(d, TRUE, "stopped", TRUE, TRUE)
       ELSE IF found = "PermissionError"
       THEN kill_returns(d, FALSE, "Permission denied to kill", FALSE, FALSE)
       ELSE IF probes < KILL_PROBES
       THEN [d EXCEPT !.sh.probes = probes]
       ELSE IF ~d.sh.force
       THEN kill_returns([d EXCEPT !.os = send_signal(d.os, pid, "SIGKILL"),
                                   !.sh.probes = probes,
                                   !.sh.sent = Append(@, "SIGKILL")],
                         TRUE, "force killed", TRUE, FALSE)
       ELSE kill_returns([d EXCEPT !.sh.probes = probes],
                         FALSE, "did not terminate", FALSE, FALSE)

\* get_saved_configs: every entry with a restart argument bag, running or not
get_saved_configs(file) == {q \in DOMAIN file : ~file[q].args.empty}

RECURSIVE ascending(_)
ascending(S) ==
    IF S = {} THEN <<>>
    ELSE LET m == CHOOSE x \in S : \A y \in S : x <= y
         IN <<m>> \o ascending(S \ {m})

\* what subprocess.run of a rebuilt command line can give: return code 0,
\* another return code, or no return within 30 s
ChildOutcomes == {"0", "nonzero", "TimeoutExpired"}

\* cmd_restore: the loop over configs_to_restore
RECURSIVE restore_loop(_, _, _, _)
restore_loop(file, todo, outcome, acc) ==
    IF todo = <<>> THEN acc
    ELSE LET pid == Head(todo)
             cmd == _build_restore_command(file[pid])
         IN restore_loop(file, Tail(todo), outcome,
               IF cmd = NoCmd
               THEN [acc EXCEPT !.failed = @ + 1]
               ELSE IF outcome[pid] = "0"
               THEN [acc EXCEPT !.launched = Append(@, pid), !.restored = @ + 1]
               ELSE [acc EXCEPT !.launched = Append(@, pid), !.failed = @ + 1])

\* cmd_restore: the dry run prints the candidates and returns
dry_run_returns_pruned(d, ret) ==
    command_returned([d EXCEPT !.file = _cleanup_dead_processes(d.file, d.os)],
                     [ret EXCEPT !.exit_code = 0])
dry_run_returns(d, ret) == command_returned(d, [ret EXCEPT !.exit_code = 0])

cmd_restore_launchAll(d, dry_run, outcome) ==
    LET saved == get_saved_configs(d.file)
        ret == [NoRet EXCEPT !.op = "restore", !.candidates = saved,
                             !.dry_run = dry_run]
        res == restore_loop(d.file, ascending(saved), outcome, ret)
    IN IF dry_run THEN dry_run_returns(d, ret)
       ELSE command_returned(d,
               [res EXCEPT !.exit_code = IF res.failed = 0 THEN 0 ELSE 1])
cmd_restore(d, dry_run, outcome) ==
    LET saved == get_saved_configs(d.file)
        configs_to_restore == {q \in saved : ~is_running(d.os, q)}
        ret == [NoRet EXCEPT !.op = "restore", !.candidates = configs_to_restore,
                             !.dry_run = dry_run]
        res == restore_loop(d.file, ascending(configs_to_restore), outcome, ret)
    IN IF configs_to_restore = {}
       THEN command_returned(
               [d EXCEPT !.file = _cleanup_dead_processes(d.file, d.os)],
               [ret EXCEPT !.exit_code = 0])
       ELSE IF dry_run
       THEN dry_run_returns(d, ret)
       ELSE command_returned(d,
               [res EXCEPT !.exit_code = IF res.failed = 0 THEN 0 ELSE 1])

\* the caller is back at the prompt
prompt(d) == [d EXCEPT !.sh = [IdleShell EXCEPT !.killed = d.sh.killed]]

(***************************************************************************)
(* Daemons being started, ending and being administered.                   *)
(***************************************************************************)
ForwardLive == [NoNamespace EXCEPT !.command = "forward-live", !.daemon = TRUE]

DaemonInvocations ==
    {[ForwardLive EXCEPT !.source = "@src", !.dest = <<"@dst">>],
     [ForwardLive EXCEPT !.config = "routes.yaml"],
     [NoNamespace EXCEPT !.command = "forward-last", !.daemon = TRUE,
                         !.source = "@src", !.dest = <<"@dst">>, !.count = 5]}

FreePids == {q \in Pids : os_procs[q].state = "free"}

DaemonInit ==
    /\ jobs = <<>>
    /\ current_job_id = NoJob
    /\ jobs_file = <<>>
    /\ created = 0
    /\ last_op = [op |-> "init", job_id |-> NoJob, ret |-> NoJob]
    /\ source = [last |-> 0, forwardable |-> {}]
    /\ proc = IdleProc(NoExit)
    /\ hist = NoHist
    /\ daemons_file = <<>>
    /\ os_procs = [q \in Pids |-> FreeProcess]
    /\ shell = IdleShell

restOfWorld == <<jobs, current_job_id, jobs_file, created, last_op, source, proc, hist>>

\* a command line with --daemon is run: the pids of the two forks are new
Daemonize ==
    /\ \E args \in DaemonInvocations, first, second \in FreePids :
         /\ first < second
         /\ \A q \in FreePids : first <= q /\ (q # first => second <= q)
         /\ SetD(daemonize(D, daemon_call(args), first, second))
    /\ UNCHANGED restOfWorld

Register ==
    /\ \E pid \in Pids :
         /\ os_procs[pid].state = "forked"
         /\ SetD(_register_daemon(D, pid))
    /\ UNCHANGED restOfWorld

\* the worker's command returns (its job is done, or its shutdown handler ran)
WorkerExits ==
    /\ \E pid \in Pids :
         /\ os_procs[pid].state \in {"run", "term"}
         /\ SetD(_unregister_daemon(D, pid))
    /\ UNCHANGED restOfWorld

\* SIGKILL, SIGTERM without a handler, a crash, a reboot
WorkerDies ==
    /\ \E pid \in Pids :
         /\ os_procs[pid].state \in AliveStates
         /\ SetD(died(D, pid))
    /\ UNCHANGED restOfWorld

PidReused ==
    /\ \E pid \in Pids :
         /\ os_procs[pid].state \in {"exited", "crashed"}
         /\ os_procs' = [os_procs EXCEPT ![pid].state = "foreign"]
    /\ UNCHANGED <<restOfWorld, daemons_file, shell>>

ListRunning ==
    /\ shell.pc = "idle"
    /\ SetD(list_running(D))
    /\ UNCHANGED restOfWorld

KillStart ==
    /\ shell.pc = "idle"
    /\ \E pid \in Pids, force \in BOOLEAN : SetD(kill(D, pid, force))
    /\ UNCHANGED restOfWorld

KillProbe ==
    /\ shell.pc = "kill"
    /\ SetD(kill_probe(D))
    /\ UNCHANGED restOfWorld

Restore ==
    /\ shell.pc = "idle"
    /\ \E dry_run \in BOOLEAN, outcome \in [DOMAIN daemons_file -> ChildOutcomes] :
         /\ \A q \in DOMAIN daemons_file :
               outcome[q] = "0" =>
                  parse_args(_build_restore_command(daemons_file[q])) # ParseError
         /\ SetD(cmd_restore(D, dry_run, outcome))
    /\ UNCHANGED restOfWorld

Prompt ==
    /\ shell.pc = "done"
    /\ SetD(prompt(D))
    /\ UNCHANGED restOfWorld

DaemonNext ==
    \/ Daemonize
    \/ Register
    \/ WorkerExits
    \/ WorkerDies
    \/ PidReused
    \/ ListRunning
    \/ KillStart
    \/ KillProbe
    \/ Restore
    \/ Prompt

DaemonSpec == DaemonInit /\ [][DaemonNext]_vars

DaemonTypeOK ==
    /\ DOMAIN daemons_file \subseteq Pids
    /\ \A q \in Pids : os_procs[q].state \in ProcStates
    /\ shell.pc \in {"idle", "kill", "done"}
    /\ shell.probes \in 0..KILL_PROBES

(***************************************************************************)
(* Properties of the daemon manager (checked under DaemonSpec).            *)
(***************************************************************************)
Workers == {q \in Pids : os_procs[q].call # NoCall}

(***************************************************************************)
(* C22: the pid daemonize returned to the parent is the pid of the         *)
(* detached worker, the pid its record is registered under and its log     *)
(* file is named after; in the worker daemonize returned 0.                *)
(***************************************************************************)
C22_ParentGetsWorkerPid ==
    \A q \in Workers :
        /\ os_procs[q].printed = q
        /\ os_procs[q].state = "run" =>
              /\ os_procs[q].ret = 0
              /\ os_procs[q].printed \in DOMAIN daemons_file =>
                    /\ daemons_file[os_procs[q].printed].pid = q
                    /\ daemons_file[os_procs[q].printed].log_file = get_log_file(q)

Running == {q \in DOMAIN daemons_file : os_procs[q].state \in AliveStates}

(***************************************************************************)
(* C23: list_running returns exactly the registered pids whose process is  *)
(* alive when it probes, and the registry it leaves holds exactly their    *)
(* records, unchanged; with every entry alive the registry is untouched.   *)
(***************************************************************************)
C23_ListRunningPrunes ==
    [][(shell.pc = "idle" /\ shell'.pc = "done" /\ shell'.ret.op = "list") =>
          /\ shell'.ret.listed = Running
          /\ DOMAIN daemons_file' = Running
          /\ \A q \in Running : daemons_file'[q] = daemons_file[q]
          /\ Running = DOMAIN daemons_file => daemons_file' = daemons_file
          /\ os_procs' = os_procs]_vars

\* a listing that returned one worker after another one, registered and since
\* dead, was dropped from the registry
C23_Witness ==
    /\ shell.pc = "done" /\ shell.ret.op = "list"
    /\ shell.ret.listed # {}
    /\ shell.killed = {}
    /\ \E q \in Workers :
          /\ os_procs[q].state \in {"crashed", "foreign"}
          /\ os_procs[q].ret = 0
          /\ q \notin DOMAIN daemons_file

KillReturns == shell.pc # "done" /\ shell'.pc = "done" /\ shell'.ret.op = "kill"

(***************************************************************************)
(* C24: when kill(pid) returns ok = true the registry has no entry for     *)
(* pid, and no later list_running returns pid; when it returns ok = false  *)
(* for a pid that is not registered and not alive, the registry is as it   *)
(* was.                                                                    *)
(***************************************************************************)
C24_KilledIsForgotten ==
    [][/\ (KillReturns /\ shell'.ret.ok) => shell'.ret.pid \notin DOMAIN daemons_file'
       /\ (KillReturns /\ shell'.ret.message = "not found") =>
             /\ ~shell'.ret.ok
             /\ daemons_file' = daemons_file
       /\ (shell'.pc = "done" /\ shell'.ret.op = "list") =>
             shell'.ret.listed \cap shell'.killed = {}]_vars

\* a listing that returns a worker after kill reported ok for another worker
\* that had been registered
C24_Witness ==
    /\ shell.pc = "done" /\ shell.ret.op = "list"
    /\ shell.ret.listed # {}
    /\ \E q \in shell.killed : os_procs[q].ret = 0

(***************************************************************************)
(* C25: kill without force sends SIGTERM first and SIGKILL only after all  *)
(* 10 probes found the process alive; kill with force sends only SIGKILL;  *)
(* kill probes at most 10 times; it reports ok = true (and has removed the *)
(* entry) only after a probe found the process gone.                       *)
(***************************************************************************)
C25_KillEscalation ==
    /\ shell.probes <= KILL_PROBES
    /\ ~shell.force =>
          /\ shell.sent \in {<<>>, <<"SIGTERM">>, <<"SIGTERM", "SIGKILL">>}
          /\ Len(shell.sent) = 2 => shell.probes = KILL_PROBES
    /\ shell.force => shell.sent \in {<<>>, <<"SIGKILL">>}
    /\ (shell.pc = "done" /\ shell.ret.op = "kill" /\ shell.ret.ok) =>
          shell.ret.confirmed

(***************************************************************************)
(* C26: a worker in which daemonize has returned is in the registry under  *)
(* its own pid for as long as it runs; after it has exited normally it is  *)
(* not in the registry; a listing leaves no entry of a worker that died    *)
(* without unregistering.                                                  *)
(***************************************************************************)
C26_RecordFollowsWorker ==
    [][/\ \A q \in Workers :
             /\ os_procs'[q].state \in {"run", "term"} /\ os_procs'[q].ret = 0 =>
                   /\ q \in DOMAIN daemons_file'
                   /\ daemons_file'[q] = DaemonProcess(q, os_procs'[q].call)
             /\ os_procs'[q].state = "exited" => q \notin DOMAIN daemons_file'
       /\ (shell.pc = "idle" /\ shell'.pc = "done" /\ shell'.ret.op = "list") =>
             \A q \in Workers : os_procs[q].state = "crashed" => q \notin DOMAIN daemons_file']_vars

RestoreReturns == shell.pc = "idle" /\ shell'.pc = "done" /\ shell'.ret.op = "restore"

\* the saved configs (entries with a restart argument bag) whose worker is not alive
NotRunning ==
    {q \in DOMAIN daemons_file :
        ~daemons_file[q].args.empty /\ os_procs[q].state \notin AliveStates}

Occurrences(seq, x) == Cardinality({i \in 1..Len(seq) : seq[i] = x})

(***************************************************************************)
(* C27: restore without dry run handles exactly the saved configs whose    *)
(* worker is not alive: it runs at most one child for each of them and     *)
(* none for any other entry, every config it runs no child for is counted  *)
(* failed, and restored + failed is the number of those configs.           *)
(***************************************************************************)
C27_RestoreCounts ==
    [][(RestoreReturns /\ ~shell'.ret.dry_run) =>
          LET ret == shell'.ret
          IN /\ ret.candidates = NotRunning
             /\ Range(ret.launched) \subseteq NotRunning
             /\ \A q \in NotRunning : Occurrences(ret.launched, q) <= 1
             /\ ret.restored <= Len(ret.launched)
             /\ ret.failed >= Cardinality(NotRunning) - Len(ret.launched)
             /\ ret.restored + ret.failed = Cardinality(NotRunning)
             /\ ret.exit_code = IF ret.failed = 0 THEN 0 ELSE 1]_vars

\* a restore that ran a child for a dead worker's config while another saved
\* config belonged to a live worker
C27_Witness ==
    /\ shell.pc = "done" /\ shell.ret.op = "restore" /\ ~shell.ret.dry_run
    /\ shell.ret.launched # <<>>
    /\ shell.ret.restored + shell.ret.failed = 1
    /\ \E q \in Running : q \notin shell.ret.candidates /\ ~daemons_file[q].args.empty

(***************************************************************************)
(* C28: a dry-run restore with at least one saved config whose worker is   *)
(* not alive reports exactly those configs, runs no child and leaves the   *)
(* registry as it was.                                                     *)
(***************************************************************************)
C28_DryRunRestore ==
    [][(RestoreReturns /\ shell'.ret.dry_run /\ NotRunning # {}) =>
          /\ shell'.ret.candidates = NotRunning
          /\ shell'.ret.launched = <<>>
          /\ shell'.ret.restored = 0 /\ shell'.ret.failed = 0
          /\ daemons_file' = daemons_file
          /\ os_procs' = os_procs]_vars

\* a dry run that reported two candidates, both still in the registry
C28_Witness ==
    /\ shell.pc = "done" /\ shell.ret.op = "restore" /\ shell.ret.dry_run
    /\ Cardinality(shell.ret.candidates) = 2
    /\ shell.ret.candidates \subseteq DOMAIN daemons_file
    /\ shell.ret.launched = <<>>

(***************************************************************************)
(* One daemonizable command line from its parsing to the parsing of the    *)
(* command line that restore rebuilds for it: main saves the restart       *)
(* argument bag in the worker's record, cmd_restore rebuilds a command     *)
(* line from the record, and the child it runs parses that.                *)
(***************************************************************************)
Accounts == {NoValue, "work"}
DestLists == {<<"@dst">>, <<"@dst", "-1002">>}

\* what parse_args gives for the four kinds of daemonizable invocation
ForwardOptions ==
    {[NoNamespace EXCEPT !.daemon = TRUE, !.account = a, !.yes = y, !.drop_author = da,
                         !.delete = del, !.media_only = mo]
        : a \in Accounts, y \in BOOLEAN, da \in BOOLEAN, del \in BOOLEAN, mo \in BOOLEAN}

Invocations ==
    {[o EXCEPT !.command = "forward-last", !.source = "@src", !.dest = ds, !.count = n]
        : o \in ForwardOptions, ds \in DestLists, n \in {5, 50}}
    \cup
    {[o EXCEPT !.command = "forward-all", !.source = "@src", !.dest = ds, !.batch_size = n]
        : o \in ForwardOptions, ds \in DestLists, n \in {50, DEFAULT_BATCH_SIZE}}
    \cup
    {[o EXCEPT !.command = "forward-live", !.source = "@src", !.dest = ds]
        : o \in ForwardOptions, ds \in DestLists}
    \cup
    {[o EXCEPT !.command = "forward-live", !.config = "routes.yaml", !.routes = rs]
        : o \in ForwardOptions, rs \in {<<>>, <<"news">>}}

RestoreArgsInit ==
    /\ jobs = <<>>
    /\ current_job_id = NoJob
    /\ jobs_file = <<>>
    /\ created = 0
    /\ last_op = [op |-> "init", job_id |-> NoJob, ret |-> NoJob]
    /\ source = [last |-> 0, forwardable |-> {}]
    /\ proc = IdleProc(NoExit)
    /\ hist = NoHist
    /\ daemons_file = <<>>
    /\ os_procs = [q \in Pids |-> FreeProcess]
    /\ \E args \in Invocations :
         shell = [pc |-> "main", args |-> args, cmd |-> NoCmd, restored |-> NoNamespace]

\* main with --daemon: daemonize, and the worker registers its record
SaveArgs ==
    /\ shell.pc = "main"
    /\ SetD(_register_daemon(
              daemonize([D EXCEPT !.sh.pc = "saved"], daemon_call(shell.args), 1, 2), 2))
    /\ UNCHANGED restOfWorld

\* cmd_restore: the command line for the saved record
RebuildCommand ==
    /\ shell.pc = "saved"
    /\ \E pid \in DOMAIN daemons_file :
         shell' = [shell EXCEPT !.pc = "built",
                                !.cmd = _build_restore_command(daemons_file[pid])]
    /\ UNCHANGED <<restOfWorld, daemons_file, os_procs>>

\* the child that cmd_restore runs parses its command line
ChildParses ==
    /\ shell.pc = "built"
    /\ shell.cmd # NoCmd
    /\ shell' = [shell EXCEPT !.pc = "parsed", !.restored = parse_args(shell.cmd)]
    /\ UNCHANGED <<restOfWorld, daemons_file, os_procs>>

RestoreArgsNext ==
    \/ SaveArgs
    \/ RebuildCommand
    \/ ChildParses

RestoreArgsSpec == RestoreArgsInit /\ [][RestoreArgsNext]_vars

\* the account a command line runs under
effective_account(args) == IF args.account # NoValue THEN args.account ELSE ActiveAccount

(***************************************************************************)
(* C29: for every daemonizable invocation, the command line rebuilt from   *)
(* the saved restart argument bag exists and parses to the same            *)
(* subcommand, account, source, destinations and option values (count,     *)
(* batch size, config and routes included), with the daemon and the        *)
(* non-interactive flag set.                                               *)
(***************************************************************************)
C29_RestoreRoundTrip ==
    /\ shell.pc = "built" => shell.cmd # NoCmd
    /\ shell.pc = "parsed" =>
          /\ shell.restored # ParseError
          /\ shell.restored.command = shell.args.command
          /\ effective_account(shell.restored) = effective_account(shell.args)
          /\ shell.restored.source = shell.args.source
          /\ shell.restored.dest = shell.args.dest
          /\ shell.restored.drop_author = shell.args.drop_author
          /\ shell.restored.delete = shell.args.delete
          /\ shell.restored.media_only = shell.args.media_only
          /\ shell.restored.count = shell.args.count
          /\ shell.restored.batch_size = shell.args.batch_size
          /\ shell.restored.config = shell.args.config
          /\ shell.restored.routes = shell.args.routes
          /\ shell.restored.daemon /\ shell.restored.yes

(***************************************************************************)
(* C31: over the first run and every resumed run of a forward-all job the  *)
(* persisted total_processed, total_skipped and total_failed never         *)
(* decrease, and when the job is marked completed total_processed is the   *)
(* number of transferable source messages, all of which were processed in  *)
(* one run or another.                                                     *)
(***************************************************************************)
C31_TotalsSurviveResume ==
    [][(HasJob /\ 1 \in DOMAIN jobs_file') =>
          /\ jobs_file'[1].total_processed >= TheJob.total_processed
          /\ jobs_file'[1].total_skipped >= TheJob.total_skipped
          /\ jobs_file'[1].total_failed >= TheJob.total_failed
          /\ (TheJob.status # "completed" /\ jobs_file'[1].status = "completed") =>
                jobs_file'[1].total_processed = Cardinality(source.forwardable)]_vars

(***************************************************************************)
(* C32: whenever forward-last, forward-all or resume returns (the second   *)
(* signal's sys.exit aside) after having created or resumed a job, that    *)
(* job is persisted as completed, interrupted or failed: the only jobs the *)
(* file shows as running are those it showed as running before the        *)
(* command started.                                                        *)
(***************************************************************************)
C32_ReturnSettlesJob ==
    (/\ proc.pc = "done"
     /\ proc.cmd \in ForwardCommands \cup {"resume"}
     /\ proc.path # "forced") =>
        \A j \in DOMAIN jobs_file :
            jobs_file[j].status = "running" =>
               j \in DOMAIN proc.jobs_before /\ proc.jobs_before[j].status = "running"

(***************************************************************************)
(* C33: when forward_to_destinations has returned for a non-empty batch,   *)
(* every (message, destination) pair of the batch is exactly once in the   *)
(* success and failed lists of its ForwardResult taken together.           *)
(***************************************************************************)
C33_EveryPairRecordedOnce ==
    (proc.pc = "result" /\ proc.batch # <<>>) =>
        \A m \in Range(proc.batch) : \A d \in DestIds :
            Cardinality({i \in 1..Len(proc.fwd.success) :
                            proc.fwd.success[i][1] = m /\ proc.fwd.success[i][2] = d})
          + Cardinality({i \in 1..Len(proc.fwd.failed) :
                            proc.fwd.failed[i][1] = m /\ proc.fwd.failed[i][2] = d}) = 1

(***************************************************************************)
(* Several processes, each with its own StateManager, on one jobs file.    *)
(* os_procs[p] is the StateManager of process p: what __init__ loaded and  *)
(* what the process did to it since.  No call locks or re-reads the file.  *)
(***************************************************************************)
MaxProcesses == 2
Processes == 1..MaxProcesses

NoStore == [state |-> "none", jobs |-> <<>>, cur |-> NoJob]

StoreOf(p) == [jobs |-> os_procs[p].jobs, cur |-> os_procs[p].cur, file |-> jobs_file]

SetStoreOf(p, s, op, job_id) ==
    /\ os_procs' = [os_procs EXCEPT ![p] = [state |-> "open", jobs |-> s.jobs, cur |-> s.cur]]
    /\ jobs_file' = s.file
    /\ last_op' = [op |-> op, job_id |-> job_id, ret |-> p]

\* StateManager.__init__: _load reads the whole file once
_load(file) == [jobs |-> file, cur |-> NoJob, file |-> file]

SharedFileInit ==
    /\ jobs = <<>>
    /\ current_job_id = NoJob
    /\ jobs_file = <<>>
    /\ created = 0
    /\ last_op = [op |-> "init", job_id |-> NoJob, ret |-> NoJob]
    /\ source = [last |-> 0, forwardable |-> {}]
    /\ proc = IdleProc(NoExit)
    /\ hist = NoHist
    /\ daemons_file = <<>>
    /\ shell = <<>>
    /\ os_procs = [p \in Processes |-> NoStore]

ProcessStarts ==
    /\ \E p \in Processes :
         /\ os_procs[p].state = "none"
         /\ SetStoreOf(p, _load(jobs_file), "__init__", NoJob)
    /\ UNCHANGED <<jobs, current_job_id, created, source, proc, hist, daemons_file, shell>>

ProcessCreatesJob ==
    /\ created < MaxJobs
    /\ \E p \in Processes, opts \in StoreOpts :
         /\ os_procs[p].state = "open"
         /\ SetStoreOf(p, create_job(StoreOf(p), created + 1, "forward-all", opts),
                       "create_job", created + 1)
    /\ created' = created + 1
    /\ UNCHANGED <<jobs, current_job_id, source, proc, hist, daemons_file, shell>>

ProcessUpdatesProgress ==
    /\ \E p \in Processes, message_id \in 1..MaxMsgId, d \in Deltas :
         /\ os_procs[p].state = "open"
         /\ has_current(StoreOf(p))
         /\ message_id >= os_procs[p].jobs[os_procs[p].cur].last_message_id
         /\ SetStoreOf(p, update_progress(StoreOf(p), message_id, d[1], d[2], d[3]),
                       "update_progress", os_procs[p].cur)
    /\ UNCHANGED <<jobs, current_job_id, created, source, proc, hist, daemons_file, shell>>

ProcessMarksJob ==
    /\ \E p \in Processes, mark \in {"completed", "interrupted", "failed"} :
         /\ os_procs[p].state = "open"
         /\ has_current(StoreOf(p))
         /\ SetStoreOf(p, CASE mark = "completed" -> mark_completed(StoreOf(p))
                            [] mark = "interrupted" -> mark_interrupted(StoreOf(p), NoError)
                            [] OTHER -> mark_failed(StoreOf(p), "account-limited"),
                       mark, os_procs[p].cur)
    /\ UNCHANGED <<jobs, current_job_id, created, source, proc, hist, daemons_file, shell>>

ProcessEnds ==
    /\ \E p \in Processes :
         /\ os_procs[p].state = "open"
         /\ os_procs' = [os_procs EXCEPT ![p] = NoStore]
         /\ last_op' = [op |-> "exit", job_id |-> NoJob, ret |-> p]
    /\ UNCHANGED <<jobs, current_job_id, jobs_file, created, source, proc, hist,
                   daemons_file, shell>>

SharedFileNext ==
    \/ ProcessStarts
    \/ ProcessCreatesJob
    \/ ProcessUpdatesProgress
    \/ ProcessMarksJob
    \/ ProcessEnds

SharedFileSpec == SharedFileInit /\ [][SharedFileNext]_vars

(***************************************************************************)
(* C34: with two processes on one jobs file, a mutating call of one        *)
(* process changes no persisted record but that of the job it is called    *)
(* for: every other record in the file (whoever wrote it) is still there   *)
(* afterwards with the same checkpoint, totals and status.                 *)
(***************************************************************************)
C34_OtherRecordsUntouched ==
    [][\A j \in DOMAIN jobs_file :
          j # last_op'.job_id => j \in DOMAIN jobs_file' /\ jobs_file'[j] = jobs_file[j]]_vars

(***************************************************************************)
(* C35: a saved config whose worker is not alive stays among the saved     *)
(* configs (get_saved_configs still returns it) through every step that    *)
(* is neither a restore that launches nor the return of a kill of that     *)
(* pid; in particular through a listing.                                   *)
(***************************************************************************)
C35_DeadConfigStaysRestorable ==
    [][\A q \in NotRunning :
          (/\ ~(KillReturns /\ shell'.ret.pid = q)
           /\ ~(RestoreReturns /\ ~shell'.ret.dry_run)) =>
              q \in get_saved_configs(daemons_file')]_vars

C37_KillTouchesOnlyItsEntry ==
    [][KillReturns =>
          \A q \in Pids \ {shell'.ret.pid} :
              /\ q \in DOMAIN daemons_file' <=> q \in DOMAIN daemons_file
              /\ q \in DOMAIN daemons_file => daemons_file'[q] = daemons_file[q]]_vars

(***************************************************************************)
(* cmd_forward_last running Forwarder.forward_last: the last `count`       *)
(* messages are fetched, the forwardable ones are forwarded in slices of   *)
(* MAX_BATCH_SIZE, and the command marks the job from the shutdown flag.   *)
(* Messages are counted, not told apart; hist keeps what was going on      *)
(* when the stop was requested.                                            *)
(***************************************************************************)
MaxLastBatches == 3
LastCounts == {1, MAX_BATCH_SIZE, MAX_BATCH_SIZE + 1, MaxLastBatches * MAX_BATCH_SIZE}

IdleLast ==
    [pc |-> "idle", count |-> 0, messages |-> 0, skipped |-> 0, i |-> 0,
     processed |-> 0, failed |-> 0, dry_run |-> FALSE,
     shutdown_requested |-> FALSE, exit_code |-> NoExit]

NoStop == [stopped |-> FALSE, in_flight |-> FALSE, started_after_stop |-> 0, job |-> NoJob]

ForwardLastInit ==
    /\ jobs = <<>>
    /\ current_job_id = NoJob
    /\ jobs_file = <<>>
    /\ created = 0
    /\ last_op = [op |-> "init", job_id |-> NoJob, ret |-> NoJob]
    /\ source = [last |-> 0, forwardable |-> {}]
    /\ proc = IdleLast
    /\ hist = NoStop
    /\ NoDaemonWorld

\* cmd_forward_last up to the loop of forward_last: create_job, the fetch of
\* the last `count` messages, and the two early returns of forward_last
CmdForwardLast ==
    /\ proc.pc = "idle"
    /\ created < MaxCommandJobs
    /\ \E count \in LastCounts, dry_run \in BOOLEAN :
       \E messages \in {0, 1, count - 1, count} :
         /\ SetSM(create_job([jobs |-> jobs_file, cur |-> NoJob, file |-> jobs_file],
                             created + 1, "forward-last",
                             [destinations |-> <<1>>, delete_after |-> FALSE,
                              batch_size |-> MAX_BATCH_SIZE]))
         /\ proc' = [IdleLast EXCEPT
                       !.count = count, !.messages = messages,
                       !.skipped = count - messages, !.dry_run = dry_run,
                       !.processed = IF dry_run THEN messages ELSE 0,
                       !.pc = IF messages = 0 \/ dry_run THEN "returned" ELSE "loop"]
         /\ hist' = [NoStop EXCEPT !.job = created + 1]
    /\ created' = created + 1
    /\ UNCHANGED <<last_op, source, daemonVars>>

\* forward_last: the next slice is handed to forward_to_destinations
LastBatchStarts ==
    /\ proc.pc = "loop"
    /\ proc' = [proc EXCEPT !.pc = "call"]
    /\ hist' = [hist EXCEPT !.started_after_stop =
                               IF proc.shutdown_requested THEN @ + 1 ELSE @]
    /\ UNCHANGED <<storeVars, created, last_op, source, daemonVars>>

\* forward_last: forward_to_destinations returned or raised
LastBatchReturns ==
    /\ proc.pc = "call"
    /\ \E outcome \in {"all", "some-failed", "AccountLimitedError"} :
         LET n == Min(MAX_BATCH_SIZE, proc.messages - proc.i)
             i == proc.i + MAX_BATCH_SIZE
         IN IF outcome = "AccountLimitedError"
            THEN /\ SetSM(mark_failed(SM, "account-limited"))
                 /\ proc' = [proc EXCEPT !.pc = "done", !.exit_code = 1]
            ELSE /\ proc' = [proc EXCEPT
                               !.processed = @ + n,
                               !.failed = IF outcome = "all" THEN @ ELSE @ + 1,
                               !.i = i,
                               !.pc = IF i < proc.messages THEN "loop" ELSE "returned"]
                 /\ UNCHANGED storeVars
    /\ UNCHANGED <<created, last_op, source, hist, daemonVars>>

\* GracefulShutdown._handler during forward_last
LastSignal ==
    /\ proc.pc \in {"loop", "call"}
    /\ IF proc.shutdown_requested
       THEN /\ proc' = [proc EXCEPT !.pc = "done", !.exit_code = 1]
            /\ UNCHANGED hist
       ELSE /\ proc' = [proc EXCEPT !.shutdown_requested = TRUE]
            /\ hist' = [hist EXCEPT !.stopped = TRUE, !.in_flight = proc.pc = "call"]
    /\ UNCHANGED <<storeVars, created, last_op, source, daemonVars>>

\* cmd_forward_last after forward_last returned
LastCommandReturns ==
    /\ proc.pc = "returned"
    /\ SetSM(IF proc.shutdown_requested THEN mark_interrupted(SM, NoError)
             ELSE mark_completed(SM))
    /\ proc' = [proc EXCEPT !.pc = "done",
                            !.exit_code = IF proc.failed = 0 THEN 0 ELSE 1]
    /\ UNCHANGED <<created, last_op, source, hist, daemonVars>>

\* the process is gone; the next command starts from the file
LastProcessExits ==
    /\ proc.pc = "done"
    /\ proc' = IdleLast
    /\ jobs' = jobs_file
    /\ current_job_id' = NoJob
    /\ UNCHANGED <<jobs_file, created, last_op, source, hist, daemonVars>>

ForwardLastNext ==
    \/ CmdForwardLast
    \/ LastBatchStarts
    \/ LastBatchReturns
    \/ LastSignal
    \/ LastCommandReturns
    \/ LastProcessExits

ForwardLastSpec == ForwardLastInit /\ [][ForwardLastNext]_vars

(***************************************************************************)
(* C38: once a stop has been requested during forward_last no further      *)
(* slice is handed to the forwarder (the one in flight is finished), and   *)
(* when the command returns the job is interrupted only if fewer messages  *)
(* were forwarded than forwardable messages were fetched.                  *)
(***************************************************************************)
C38_StopEndsForwardLast ==
    /\ hist.started_after_stop = 0
    /\ (proc.pc = "done" /\ hist.job \in DOMAIN jobs_file
          /\ jobs_file[hist.job].status = "interrupted") =>
           proc.processed < proc.messages

(***************************************************************************)
(* C39: during a forward-all run with dry_run set no forward call is made, *)
(* nothing is delivered or deleted, and the persisted checkpoint of the    *)
(* job does not move from the value it was created with.                   *)
(***************************************************************************)
C39_DryRunLeavesNoTrace ==
    (proc.pc # "idle" /\ proc.args.dry_run) =>
        /\ hist.calls = <<>>
        /\ hist.delivered = {}
        /\ hist.deleted = {}
        /\ HasJob => TheJob.last_message_id = hist.start

(***************************************************************************)
(* A fresh forward-all run that really forwards, with every answer of the  *)
(* remote, iteration errors and signals, under the assumption that every   *)
(* remote call and every fetch of the next message eventually returns:     *)
(* the running command is never stopped forever before a step it can       *)
(* take.  Answers other than ok are bounded by MaxFaults, so a batch meets *)
(* only finitely many short flood waits.                                   *)
(***************************************************************************)
RunStep ==
    \/ NextMessage
    \/ IterEnd
    \/ ForwardBatch
    \/ ForwardReturned
    \/ ForwardSingle
    \/ Refetch

MaxFairMsgs == 2

FairInit == FloodInit /\ source.last <= MaxFairMsgs

FairNext ==
    \/ FloodForwardAll
    \/ RunStep
    \/ IterError
    \/ Signal

FairSpec == FairInit /\ [][FairNext]_vars /\ WF_vars(RunStep)

NextW ==
    [sm |-> [jobs |-> jobs', cur |-> current_job_id', file |-> jobs_file'],
     created |-> created', p |-> proc', h |-> hist']

OverCeiling == [kind |-> "FloodWaitError", seconds |-> FLOOD_CEILING + 1]

\* a forward call that the remote answers with a flood wait above the ceiling
OverCeilingAnswer ==
    \/ /\ proc.pc = "call"
       /\ NextW = forward_messages_batch(log_call(W, Msgs(proc), OverCeiling), OverCeiling)
    \/ /\ proc.pc = "single"
       /\ NextW = forward_single_message(
                     log_call(W, <<Msgs(proc)[proc.fwd.i]>>, OverCeiling), OverCeiling)

Settled == HasJob /\ TheJob.status \in {"completed", "interrupted", "failed"}

(***************************************************************************)
(* C40: over a finite backlog, with every remote call returning and only   *)
(* finitely many answers other than ok, a forward-all run always comes to  *)
(* its end; when it ends other than by the second signal's sys.exit the    *)
(* job is completed, interrupted or failed; and a flood wait above the     *)
(* ceiling ends the run at once with the job failed.                       *)
(***************************************************************************)
C40_RunEndsSettled ==
    /\ (proc.pc # "idle") ~> (proc.pc = "idle")
    /\ [][(proc.pc # "idle" /\ proc'.pc = "idle" /\ NextW # handler(W)) => Settled']_vars
    /\ [][OverCeilingAnswer =>
            proc'.pc = "idle" /\ HasJob' /\ jobs_file'[1].status = "failed"]_vars

=============================================================================
